---- MODULE Spec2Model ----
(***************************************************************************)
(* Model of the soul-guardian backend: the custom JWT codec                *)
(* (utils/jwt.ts), the three-carrier resolver `verify` and the gate        *)
(* `authorize` (_app/auth.ts), the avatar routes (api/avatar/index.ts)     *)
(* over the users table, the avatars table and the avatar bucket, the      *)
(* routes POST /exchange and POST /logout (api/auth/index.ts), and the     *)
(* cookie-only authMiddleware (middleware/auth.ts) in front of             *)
(* GET /api/profile.                                                       *)
(*                                                                         *)
(* A request runs as a little process: one action per stretch of code      *)
(* between two awaits.  Time is counted in units of 12 hours.              *)
(***************************************************************************)
EXTENDS Integers, Sequences, FiniteSets, TLC

\* JavaScript `undefined` and `null` for string-valued things, and JS
\* truthiness of a string | null | undefined value.
UNDEF == "undefined"
JsNull == "null"
Truthy(s) == s # UNDEF /\ s # JsNull /\ s # ""
\* value ?? undefined
OrUndefined(value) == IF value = JsNull THEN UNDEF ELSE value

----------------------------------------------------------------------------
(* Bounds *)

\* The clock runs 0..MaxTime.
MaxTime == 2
\* Rows the avatars table may hold / objects the bucket may hold before the
\* model stops creating more.
MaxAvatars == 2
\* Tokens the exchange may issue before the model stops new logins.
MaxIssued == 2

----------------------------------------------------------------------------
(* utils/jwt.ts *)

\* '24h' in units of 12 hours.
JWT_EXPIRY == 2
\* Minimum secret length.
MIN_SECRET_LEN == 32

\* A secret is its text (id) and its length.
K1     == [id |-> "k1", len |-> 32]
K2     == [id |-> "k2", len |-> 40]
KWeak  == [id |-> "kw", len |-> 31]

\* HMAC tag over header and payload under a secret: an ideal MAC, the tag
\* determines the key and the signed content.
Sign(secret, alg, sub, email, firstName, lastName, iat, exp) ==
  [key |-> secret.id, alg |-> alg, sub |-> sub, email |-> email,
   firstName |-> firstName, lastName |-> lastName, iat |-> iat, exp |-> exp]

NoMac == Sign([id |-> ""], "", UNDEF, UNDEF, UNDEF, UNDEF, 0, 0)

\* A token string: fmt "jws" is three well-formed base64url parts, "garbage"
\* is any other non-empty string, "absent" is no cookie (or the empty one).
Token(fmt, alg, sub, email, firstName, lastName, iat, exp, mac) ==
  [fmt |-> fmt, alg |-> alg, sub |-> sub, email |-> email,
   firstName |-> firstName, lastName |-> lastName, iat |-> iat, exp |-> exp,
   mac |-> mac]

NoToken == Token("absent", "", UNDEF, UNDEF, UNDEF, UNDEF, 0, 0, NoMac)
Garbage == Token("garbage", "", UNDEF, UNDEF, UNDEF, UNDEF, 0, 0, NoMac)

NoPayload == [sub |-> UNDEF, email |-> UNDEF, firstName |-> UNDEF,
              lastName |-> UNDEF, iat |-> 0, exp |-> 0]

WeakSecretMsg == "JWT secret must be at least 32 characters long"

\* new SignJWT(payload).setProtectedHeader({alg}).setIssuedAt()
\*   .setExpirationTime('24h').sign(key)
SignJWT(sub, email, firstName, lastName, secret, t) ==
  Token("jws", "HS256", sub, email, firstName, lastName, t, t + JWT_EXPIRY,
        Sign(secret, "HS256", sub, email, firstName, lastName, t, t + JWT_EXPIRY))

\* The userData argument of createJWT.
UserData(userId, email, firstName, lastName) ==
  [userId |-> userId, email |-> email, firstName |-> firstName,
   lastName |-> lastName]

\* createJWT(userData, secret) at time t.
createJWT(userData, secret, t) ==
  IF secret.id = "" \/ secret.len < MIN_SECRET_LEN
  THEN [ok |-> FALSE, error |-> WeakSecretMsg, token |-> NoToken]
  ELSE [ok |-> TRUE, error |-> "",
        token |-> SignJWT(userData.userId,
                          IF Truthy(userData.email) THEN userData.email ELSE UNDEF,
                          IF Truthy(userData.firstName) THEN userData.firstName ELSE UNDEF,
                          IF Truthy(userData.lastName) THEN userData.lastName ELSE UNDEF,
                          secret, t)]

\* Mutant of JoseVerify: the list of accepted algorithms is not passed, so
\* any HMAC algorithm the header names is used.
JoseVerify_AnyAlgorithm(token, secret, t) ==
  IF token.fmt # "jws" THEN "ERR_JWS_INVALID"
  ELSE IF token.mac # Sign(secret, token.alg, token.sub, token.email,
                           token.firstName, token.lastName, token.iat, token.exp)
       THEN "ERR_JWS_SIGNATURE_VERIFICATION_FAILED"
  ELSE IF token.exp <= t THEN "ERR_JWT_EXPIRED"
  ELSE ""

\* Mutant of JoseVerify: a maximum token age of one clock unit is enforced
\* besides exp.
JoseVerify_MaxTokenAge(token, secret, t) ==
  IF token.fmt # "jws" THEN "ERR_JWS_INVALID"
  ELSE IF token.alg # "HS256" THEN "ERR_JOSE_ALG_NOT_ALLOWED"
  ELSE IF token.mac # Sign(secret, token.alg, token.sub, token.email,
                           token.firstName, token.lastName, token.iat, token.exp)
       THEN "ERR_JWS_SIGNATURE_VERIFICATION_FAILED"
  ELSE IF token.exp <= t \/ token.iat + 1 <= t THEN "ERR_JWT_EXPIRED"
  ELSE ""

\* jose's jwtVerify(token, key, {algorithms: ['HS256']}) at time t: the
\* error code it throws, or "" when the token verifies.
JoseVerify(token, secret, t) ==
  IF token.fmt # "jws" THEN "ERR_JWS_INVALID"
  ELSE IF token.alg # "HS256" THEN "ERR_JOSE_ALG_NOT_ALLOWED"
  ELSE IF token.mac # Sign(secret, token.alg, token.sub, token.email,
                           token.firstName, token.lastName, token.iat, token.exp)
       THEN "ERR_JWS_SIGNATURE_VERIFICATION_FAILED"
  ELSE IF token.exp <= t THEN "ERR_JWT_EXPIRED"
  ELSE ""

\* Mutant of verifyJWT: the returned firstName and lastName are taken from
\* each other's claim.
verifyJWT_SwapsNames(token, secret, t) ==
  IF secret.id = "" \/ secret.len < MIN_SECRET_LEN
  THEN [ok |-> FALSE, error |-> WeakSecretMsg, payload |-> NoPayload]
  ELSE LET code == JoseVerify(token, secret, t) IN
       IF code = ""
       THEN [ok |-> TRUE, error |-> "",
             payload |-> [sub |-> token.sub, email |-> token.email,
                          firstName |-> token.lastName,
                          lastName |-> token.firstName,
                          iat |-> token.iat, exp |-> token.exp]]
       ELSE IF code = "ERR_JWT_EXPIRED"
       THEN [ok |-> FALSE, error |-> "Token has expired", payload |-> NoPayload]
       ELSE [ok |-> FALSE, error |-> "Invalid token", payload |-> NoPayload]

\* Mutant of verifyJWT: the catch block does not tell ERR_JWT_EXPIRED apart.
verifyJWT_NoExpiredKind(token, secret, t) ==
  IF secret.id = "" \/ secret.len < MIN_SECRET_LEN
  THEN [ok |-> FALSE, error |-> WeakSecretMsg, payload |-> NoPayload]
  ELSE LET code == JoseVerify(token, secret, t) IN
       IF code = ""
       THEN [ok |-> TRUE, error |-> "",
             payload |-> [sub |-> token.sub, email |-> token.email,
                          firstName |-> token.firstName,
                          lastName |-> token.lastName,
                          iat |-> token.iat, exp |-> token.exp]]
       ELSE [ok |-> FALSE, error |-> "Invalid token", payload |-> NoPayload]

\* verifyJWT(token, secret) at time t.
verifyJWT(token, secret, t) ==
  IF secret.id = "" \/ secret.len < MIN_SECRET_LEN
  THEN [ok |-> FALSE, error |-> WeakSecretMsg, payload |-> NoPayload]
  ELSE LET code == JoseVerify(token, secret, t) IN
       IF code = ""
       THEN [ok |-> TRUE, error |-> "",
             payload |-> [sub |-> token.sub, email |-> token.email,
                          firstName |-> token.firstName,
                          lastName |-> token.lastName,
                          iat |-> token.iat, exp |-> token.exp]]
       ELSE IF code = "ERR_JWT_EXPIRED"
       THEN [ok |-> FALSE, error |-> "Token has expired", payload |-> NoPayload]
       ELSE [ok |-> FALSE, error |-> "Invalid token", payload |-> NoPayload]

NoResult == [ok |-> FALSE, error |-> "", payload |-> NoPayload]

----------------------------------------------------------------------------
(* The world outside the code: users, identity provider, cookies, headers *)

UserIds == {"u1", "u2"}

Identity(sub, email, firstName, lastName) ==
  [sub |-> sub, email |-> email, firstName |-> firstName, lastName |-> lastName]

NoIdentity == Identity(UNDEF, UNDEF, UNDEF, UNDEF)

\* An Authorization header as the code sees it: its first seven characters
\* and what follows them.
Header(prefix, rest) == [present |-> TRUE, prefix |-> prefix, rest |-> rest]
NoHeader == [present |-> FALSE, prefix |-> "", rest |-> ""]

\* String.prototype.trim on the header remainders the model uses.
Trim(s) == IF s = " " THEN "" ELSE s

\* What the identity provider's key set makes of a bearer token: the claims
\* of a token it signed for the configured audience, or a failure.
ProviderClaims(token) ==
  IF token = "tokB"
  THEN [ok |-> TRUE, sub |-> "u2", email |-> "b@idp", first_name |-> UNDEF,
        last_name |-> "Lee"]
  ELSE IF token = "tokA"
  THEN [ok |-> TRUE, sub |-> "u1", email |-> "a@idp", first_name |-> "Anna",
        last_name |-> UNDEF]
  ELSE [ok |-> FALSE, sub |-> UNDEF, email |-> UNDEF, first_name |-> UNDEF,
        last_name |-> UNDEF]

BearerFailure == ProviderClaims("")

\* What unsealing a provider session cookie can give: session.authenticate()
\* throws, reports not authenticated, or authenticates (with or without a
\* user object).
AuthResult(threw, authenticated, hasUser, user) ==
  [threw |-> threw, authenticated |-> authenticated, hasUser |-> hasUser,
   user |-> user]

SessionUser == Identity("u1", "a@idp", "Anna", "Kay")

SessionOutcomes(cookie) ==
  { AuthResult(TRUE, FALSE, FALSE, NoIdentity),
    AuthResult(FALSE, FALSE, FALSE, NoIdentity) }
  \cup (IF cookie = "sealA"
        THEN { AuthResult(FALSE, TRUE, TRUE, SessionUser),
               AuthResult(FALSE, TRUE, FALSE, NoIdentity) }
        ELSE {})

----------------------------------------------------------------------------
(* utils/sql.ts and the users table *)

NULL == "NULL"

\* escapeSqlString: the SQL value a string | null | undefined becomes.
escapeSqlString(value) ==
  IF value = UNDEF \/ value = JsNull THEN NULL ELSE value

\* user.firstName || ''
OrEmpty(value) == IF Truthy(value) THEN value ELSE ""

Row(email, first_name, last_name) ==
  [present |-> TRUE, email |-> email, first_name |-> first_name,
   last_name |-> last_name]
NoRow == [present |-> FALSE, email |-> NULL, first_name |-> NULL,
          last_name |-> NULL]

\* buildUserUpsertQuery(user) run against the table: INSERT ... ON CONFLICT(id)
\* DO UPDATE SET email, first_name, last_name.
UserUpsert(table, user) ==
  [table EXCEPT ![user.sub] =
     Row(escapeSqlString(user.email),
         escapeSqlString(OrEmpty(user.firstName)),
         escapeSqlString(OrEmpty(user.lastName)))]

----------------------------------------------------------------------------
(* State *)

VARIABLES
  now,      \* the wall clock
  env,      \* c.env: the configured WORKOS_COOKIE_PASSWORD
  users,    \* SMART_DB, table users: id -> row
  avatars,  \* SMART_DB, table avatars: a set of rows
  nextId,   \* the avatars table's AUTOINCREMENT counter
  bucket,   \* AVATAR_BUCKET: the keys that hold an object
  rq,       \* the requests in flight: request id -> its context and position
  issued,   \* the first-party tokens POST /exchange has handed to clients
  loggedOut,\* the tokens a POST /logout has succeeded with
  cd        \* a caller of the token codec: its inputs, position and results

vars == <<now, env, users, avatars, nextId, bucket, rq, issued, loggedOut, cd>>

Reqs == {1, 2}

\* A storage key is the sequence of its '/'-separated segments;
\* c.req.param('key') undefined is the empty sequence.
NoKey == << >>

NoFile == [present |-> FALSE, type |-> "", size |-> 0, name |-> ""]

\* c.req.url: its scheme and what follows "://".
Url(scheme, rest) == [scheme |-> scheme, rest |-> rest]

\* A Set-Cookie directive of the response, as hono's setCookie(c, name,
\* value, opt) writes it: an option left out is not emitted (no HttpOnly, no
\* Secure, no SameSite, no Path; maxAge -1 stands for no Max-Age).
Cookie(value, httpOnly, secure, sameSite, path, maxAge) ==
  [set |-> TRUE, value |-> value, httpOnly |-> httpOnly, secure |-> secure,
   sameSite |-> sameSite, path |-> path, maxAge |-> maxAge]
\* The response sets no such cookie.
NoCookie(value) ==
  [set |-> FALSE, value |-> value, httpOnly |-> FALSE, secure |-> FALSE,
   sameSite |-> UNDEF, path |-> UNDEF, maxAge |-> -1]

\* No row of the avatars table.
NoAvatar ==
  [id |-> 0, user_id |-> UNDEF, name |-> UNDEF, relationship |-> UNDEF,
   photo_url |-> << >>]

\* A request: what it carries, the locals of verify and of the handler, the
\* context c, the response, and the calls made on its behalf.
Idle ==
  [pc |-> "idle",
   customAuthToken |-> NoToken, authHeader |-> NoHeader, sessionCookie |-> UNDEF,
   url |-> Url("", ""), code |-> UNDEF,
   sealedSession |-> UNDEF, userId |-> UNDEF,
   cookies |-> [auth_token |-> NoCookie(NoToken), wos_session |-> NoCookie(UNDEF)],
   success |-> FALSE, workosLogoutUrl |-> UNDEF,
   route |-> "", key |-> NoKey,
   contentType |-> "", body |-> [name |-> UNDEF], photo |-> NoFile,
   photoKey |-> NoKey,
   payload |-> NoResult, user |-> NoIdentity,
   jwtSet |-> FALSE, jwt |-> NoIdentity,
   nextCalls |-> 0, handlerRan |-> FALSE,
   idParam |-> UNDEF, avatar |-> NoAvatar, result |-> << >>,
   status |-> 0, error |-> "", calls |-> << >>]

----------------------------------------------------------------------------
(* _app/auth.ts: verify and authorize, as transformers of a request *)

\* return c.json({ error }, status)
Respond(q, status, error) ==
  [q EXCEPT !.pc = "done", !.status = status, !.error = error]

\* return await next(): the continuation of verify is authorize
CallNext(q) == [q EXCEPT !.pc = "authorize", !.nextCalls = @ + 1]

\* c.set('jwt', { payload: {...} })
SetJwt(q, identity) == [q EXCEPT !.jwtSet = TRUE, !.jwt = identity]

\* q suspended at an await of the capability `name`
Await(q, pc, name) == [q EXCEPT !.pc = pc, !.calls = Append(@, name)]

\* authHeader && authHeader.startsWith('Bearer ')
HasBearer(q) ==
  q.authHeader.present /\ q.authHeader.prefix = "Bearer "

\* Mutant of TrySession: a request with no credential at all is passed on
\* to the continuation instead of being answered 401.
TrySession_PassesOn(q) ==
  IF Truthy(q.sessionCookie)
  THEN Await(q, "await_authenticate", "authenticate")
  ELSE CallNext(q)

\* verify, lines 106-117 and 157-158: the session cookie, or nothing at all.
TrySession(q) ==
  IF Truthy(q.sessionCookie)
  THEN Await(q, "await_authenticate", "authenticate")
  ELSE Respond(q, 401, "Unauthorized - Missing authentication")

\* verify, lines 51-69: the Authorization header.
TryBearer(q) ==
  IF HasBearer(q)
  THEN IF Trim(q.authHeader.rest) = ""
       THEN Respond(q, 401, "Unauthorized - Invalid token")
       ELSE Await(q, "await_jwtVerify", "jwtVerify")
  ELSE TrySession(q)

\* verify, lines 14-24 and 47-49: entry.
VerifyEnter(q) ==
  IF q.customAuthToken.fmt # "absent"
  THEN Await(q, "await_verifyJWT", "verifyJWT")
  ELSE TryBearer(q)

\* Mutant of OnVerifyJWT: the `return` before `await next()` is missing, so
\* a verified custom token still goes on to the other carriers.
OnVerifyJWT_NoReturn(q, res) ==
  IF res.ok
  THEN TryBearer(CallNext(SetJwt([q EXCEPT !.payload = res],
                       Identity(res.payload.sub, res.payload.email,
                                res.payload.firstName, res.payload.lastName))))
  ELSE TryBearer([q EXCEPT !.payload = res])

\* Mutant of OnVerifyJWT: the catch block answers 401 instead of falling
\* through to the other carriers.
OnVerifyJWT_RejectsOnFailure(q, res) ==
  IF res.ok
  THEN CallNext(SetJwt([q EXCEPT !.payload = res],
                       Identity(res.payload.sub, res.payload.email,
                                res.payload.firstName, res.payload.lastName)))
  ELSE Respond([q EXCEPT !.payload = res], 401, "Unauthorized - Invalid token")

\* verify, lines 24-46: verifyJWT has returned `res` (or thrown).
OnVerifyJWT(q, res) ==
  IF res.ok
  THEN CallNext(SetJwt([q EXCEPT !.payload = res],
                       Identity(res.payload.sub, res.payload.email,
                                res.payload.firstName, res.payload.lastName)))
  ELSE TryBearer([q EXCEPT !.payload = res])

\* Mutant of OnJwtVerify: a bearer token that fails verification falls
\* through to the session cookie.
OnJwtVerify_FallsToSession(q, p) ==
  IF p.ok
  THEN Await([q EXCEPT !.user = Identity(p.sub, p.email, p.first_name, p.last_name)],
             "await_upsert_bearer", "executeQuery")
  ELSE TrySession(q)

\* Mutant of OnJwtVerify: the upsert is started but not awaited before the
\* Identity is attached and the continuation called.
OnJwtVerify_UpsertNotAwaited(q, p) ==
  IF p.ok
  THEN LET id == Identity(p.sub, p.email, p.first_name, p.last_name) IN
       CallNext(SetJwt([q EXCEPT !.user = id,
                                 !.calls = Append(@, "executeQuery")], id))
  ELSE Respond(q, 401, "Unauthorized - Invalid access token")

\* verify, lines 69-87 and 100-103: jwtVerify against the provider's keys
\* has returned the claims `p` (or thrown).
OnJwtVerify(q, p) ==
  IF p.ok
  THEN Await([q EXCEPT !.user = Identity(p.sub, p.email, p.first_name, p.last_name)],
             "await_upsert_bearer", "executeQuery")
  ELSE Respond(q, 401, "Unauthorized - Invalid access token")

\* Mutant of OnAuthenticate: the test for a missing user is left out.
OnAuthenticate_NoUserCheck(q, a) ==
  IF a.threw \/ ~a.authenticated
  THEN Respond(q, 401, "Unauthorized - Invalid session")
  ELSE Await([q EXCEPT !.user = a.user], "await_upsert_session", "executeQuery")

\* verify, lines 119-138 and 151-154: session.authenticate() has returned
\* `a` (or thrown).
OnAuthenticate(q, a) ==
  IF a.threw \/ ~a.authenticated \/ ~a.hasUser
  THEN Respond(q, 401, "Unauthorized - Invalid session")
  ELSE Await([q EXCEPT !.user = a.user], "await_upsert_session", "executeQuery")

\* The 401 of the catch block around the upsert of each path.
CatchMessage(pc) ==
  IF pc = "await_upsert_bearer"
  THEN "Unauthorized - Invalid access token"
  ELSE "Unauthorized - Invalid session"

\* Mutant of OnUpsert: a failed upsert is tried a second time.
OnUpsert_RetriesOnce(q, ok) ==
  IF ok
  THEN CallNext(SetJwt([q EXCEPT !.calls = Append(@, "executeQuery.ok")], q.user))
  ELSE IF \E i \in DOMAIN q.calls : q.calls[i] = "executeQuery.err"
  THEN Respond([q EXCEPT !.calls = Append(@, "executeQuery.err")],
               401, CatchMessage(q.pc))
  ELSE Await([q EXCEPT !.calls = Append(@, "executeQuery.err")],
             q.pc, "executeQuery")

\* Mutant of OnUpsert: the Identity is attached before the outcome of the
\* upsert is looked at.
OnUpsert_AttachesFirst(q, ok) ==
  IF ok
  THEN CallNext(SetJwt([q EXCEPT !.calls = Append(@, "executeQuery.ok")], q.user))
  ELSE Respond(SetJwt([q EXCEPT !.calls = Append(@, "executeQuery.err")], q.user),
               401, CatchMessage(q.pc))

\* verify, lines 80-103 and 131-154: the upsert has resolved (ok) or
\* rejected.
OnUpsert(q, ok) ==
  IF ok
  THEN CallNext(SetJwt([q EXCEPT !.calls = Append(@, "executeQuery.ok")], q.user))
  ELSE Respond([q EXCEPT !.calls = Append(@, "executeQuery.err")],
               401, CatchMessage(q.pc))

\* Mutant of OnAuthorize: only the presence of the context is checked, not
\* its sub.
OnAuthorize_NoSubCheck(q) ==
  IF ~q.jwtSet
  THEN Respond(q, 401, "Unauthorized - No valid user context")
  ELSE [q EXCEPT !.pc = "handler"]

\* authorize, lines 165-173.
OnAuthorize(q) ==
  IF ~q.jwtSet \/ ~Truthy(q.jwt.sub)
  THEN Respond(q, 401, "Unauthorized - No valid user context")
  ELSE [q EXCEPT !.pc = "handler"]

----------------------------------------------------------------------------
(* api/avatar/index.ts: helpers *)

PHOTO_URL_PREFIX == "/api/avatars/photo/"
MAX_FILE_SIZE == 10 * 1024 * 1024
ALLOWED_IMAGE_TYPES == {"image/jpeg", "image/png", "image/webp", "image/gif"}

\* s.split('/') on the identifiers the model uses.
SplitSlash(s) == << s >>

\* !key for a route parameter: undefined or the empty string.
KeyMissing(key) == key = NoKey \/ key = << "" >>

\* key.split('/')[0]
KeyUserId(key) == key[1]

\* photo.name.replace(/[^a-zA-Z0-9.-]/g, '_') on the file names the model uses.
Sanitize(name) == IF name = "b c.png" THEN "b_c.png" ELSE name

\* A photo url is the prefix followed by the key's segments; a NULL
\* photo_url is the empty sequence.
NullUrl == << >>
PhotoUrl(key) == << PHOTO_URL_PREFIX >> \o key

\* An uploaded File; no photo part is a record with present = FALSE.
File(type, size, name) ==
  [present |-> TRUE, type |-> type, size |-> size, name |-> name]
\* uploadPhoto, lines 53-65: the message of the error it throws before any
\* bucket access, or "" when the file is acceptable.
PhotoError(photo) ==
  IF photo.type \notin ALLOWED_IMAGE_TYPES THEN "Invalid file type"
  ELSE IF photo.size > MAX_FILE_SIZE THEN "File too large"
  ELSE ""

\* uploadPhoto, lines 67-69: the key the object is stored under.
PhotoKey(userId, t, photo) ==
  SplitSlash(userId) \o << ToString(t) \o "-" \o Sanitize(photo.name) >>

\* createAvatarSchema.safeParse(body).success
SchemaOk(body) == Truthy(body.name)

\* Mutant of OwnsKey: the comparison with the caller's id is left out.
OwnsKey_Unchecked(userId, key) == TRUE

\* The requireOwnership of GET /photo/:key, lines 219-226.
OwnsKey(userId, key) == KeyUserId(key) = userId

\* GET /photo/:key up to its bucket access, lines 212-228: the response it
\* ends with, or the bucket.get it awaits.
PhotoEnter(q) ==
  LET userId == q.jwt.sub IN
  IF ~Truthy(userId)
  THEN Respond(q, 500, "Internal server error")
  ELSE IF KeyMissing(q.key)
  THEN Respond(q, 400, "Photo key is required")
  ELSE IF ~OwnsKey(userId, q.key)
  THEN Respond(q, 403, "Forbidden - You can only access your own photos")
  ELSE Await(q, "await_bucket_get", "bucket.get")

\* GET /photo/:key, lines 228-248: bucket.get has returned (found or not)
\* or thrown.
OnBucketGet(q, threw, found) ==
  IF threw THEN Respond(q, 500, "Internal server error")
  ELSE IF ~found THEN Respond(q, 404, "Not Found")
  ELSE Respond(q, 200, "")

\* Mutant of PostEnter: the photo is uploaded before the fields are
\* validated.
PostEnter_UploadsFirst(q, t) ==
  LET userId == q.jwt.sub
      json == q.contentType = "application/json"
      multipart == q.contentType = "multipart/form-data"
      photo == IF multipart THEN q.photo ELSE NoFile
  IN
  IF ~Truthy(userId)
  THEN Respond(q, 500, "Internal server error")
  ELSE IF ~json /\ ~multipart
  THEN Respond(q, 400, "Invalid Content-Type")
  ELSE IF photo.present
  THEN IF PhotoError(photo) # ""
       THEN Respond(q, 400, "Photo upload failed")
       ELSE Await([q EXCEPT !.photoKey = PhotoKey(userId, t, photo)],
                  "await_bucket_put", "bucket.put")
  ELSE IF ~SchemaOk(q.body)
  THEN Respond(q, 400, "Invalid input")
  ELSE Await(q, "await_insert", "INSERT")

\* POST /, lines 101-157: up to the first await on the bucket or the
\* database, at time t.
PostEnter(q, t) ==
  LET userId == q.jwt.sub
      json == q.contentType = "application/json"
      multipart == q.contentType = "multipart/form-data"
      photo == IF multipart THEN q.photo ELSE NoFile
  IN
  IF ~Truthy(userId)
  THEN Respond(q, 500, "Internal server error")
  ELSE IF ~json /\ ~multipart
  THEN Respond(q, 400, "Invalid Content-Type")
  ELSE IF ~SchemaOk(q.body)
  THEN Respond(q, 400, "Invalid input")
  ELSE IF photo.present
  THEN IF PhotoError(photo) # ""
       THEN Respond(q, 400, "Photo upload failed")
       ELSE Await([q EXCEPT !.photoKey = PhotoKey(userId, t, photo)],
                  "await_bucket_put", "bucket.put")
  ELSE Await(q, "await_insert", "INSERT")

\* POST /, lines 71-75 and 146-160: bucket.put has resolved or rejected.
OnBucketPut(q, threw) ==
  IF threw
  THEN Respond(q, 400, "Photo upload failed")
  ELSE Await(q, "await_insert", "INSERT")

\* The row POST / inserts, lines 160-165.
NewAvatar(q, id) ==
  [id |-> id, user_id |-> q.jwt.sub, name |-> q.body.name,
   relationship |-> "Friend",
   photo_url |-> IF q.photoKey = NoKey THEN NullUrl ELSE PhotoUrl(q.photoKey)]

\* POST /, lines 160-184: the INSERT has resolved or rejected.
OnInsert(q, threw) ==
  IF threw THEN Respond(q, 500, "Internal server error")
  ELSE Respond(q, 201, "")

\* GET /, lines 189-194: up to the SELECT.
ListEnter(q) ==
  IF ~Truthy(q.jwt.sub)
  THEN Respond(q, 500, "Internal server error")
  ELSE Await(q, "await_select", "SELECT")

\* rows sorted by id, largest first: ORDER BY id DESC.
RECURSIVE OrderByIdDesc(_)
OrderByIdDesc(rows) ==
  IF rows = {} THEN << >>
  ELSE LET top == CHOOSE a \in rows : \A b \in rows : b.id <= a.id IN
       << top >> \o OrderByIdDesc(rows \ {top})

\* Mutant of SelectByUser: the WHERE clause is left out.
SelectByUser_AllRows(table, userId) == OrderByIdDesc(table)

\* SELECT * FROM avatars WHERE user_id = '<userId>' ORDER BY id DESC, line 192.
SelectByUser(table, userId) ==
  OrderByIdDesc({a \in table : a.user_id = userId})

\* GET /, lines 191-207: the SELECT has resolved with `rows` or rejected.
OnSelect(q, threw, rows) ==
  IF threw THEN Respond(q, 500, "Internal server error")
  ELSE [Respond(q, 200, "") EXCEPT !.result = rows]

\* avatarIdSchema, line 33: the strings of digits among the route parameters
\* the model uses, and the Number each is transformed to.
NumberOf == ("1" :> 1) @@ ("2" :> 2) @@ ("3" :> 3) @@ ("01" :> 1)
IdValid(idParam) == idParam \in DOMAIN NumberOf

\* Mutant of SelectOwned: the ownership condition of the WHERE clause is
\* left out.
SelectOwned_AnyOwner(table, id, userId) ==
  OrderByIdDesc({a \in table : a.id = id})

\* SELECT * FROM avatars WHERE id = <id> AND user_id = '<userId>', line 264.
SelectOwned(table, id, userId) ==
  OrderByIdDesc({a \in table : a.id = id /\ a.user_id = userId})

\* photoUrl.startsWith(PHOTO_URL_PREFIX)
HasPhotoPrefix(url) == Len(url) >= 1 /\ url[1] = PHOTO_URL_PREFIX

\* photoUrl.substring(PHOTO_URL_PREFIX.length)
KeyOfUrl(url) == Tail(url)

\* DELETE /:id, lines 253-267: up to the SELECT of the caller's row.
DeleteEnter(q) ==
  IF ~Truthy(q.jwt.sub)
  THEN Respond(q, 500, "Internal server error")
  ELSE IF ~IdValid(q.idParam)
  THEN Respond(q, 400, "Invalid avatar ID")
  ELSE Await(q, "await_delete_select", "SELECT")

\* DELETE /:id, lines 264-290: the SELECT has resolved with `rows` or
\* rejected.
OnDeleteSelect(q, threw, rows) ==
  IF threw
  THEN Respond([q EXCEPT !.calls = Append(@, "SELECT.err")],
               500, "Internal server error")
  ELSE IF rows = << >>
  THEN Respond(q, 404, "Avatar not found or unauthorized")
  ELSE LET q1 == [q EXCEPT !.avatar = rows[1]] IN
       IF rows[1].photo_url # NullUrl /\ HasPhotoPrefix(rows[1].photo_url)
       THEN Await(q1, "await_bucket_delete", "bucket.delete")
       ELSE Await(q1, "await_delete", "DELETE")

\* DELETE /:id, lines 276-290: bucket.delete has resolved or rejected; the
\* row is deleted either way.
OnBucketDelete(q, threw) == Await(q, "await_delete", "DELETE")

\* DELETE FROM avatars WHERE id = <id>, line 287.
DeleteFrom(table, id) == {a \in table : a.id # id}

\* DELETE /:id, lines 287-300: the DELETE has resolved or rejected.
OnDeleteRow(q, threw) ==
  IF threw THEN Respond(q, 500, "Internal server error")
  ELSE [Respond(q, 200, "") EXCEPT !.success = TRUE]

----------------------------------------------------------------------------
(* api/auth/index.ts: POST /exchange and POST /logout *)

\* c.req.url.startsWith('https://')
IsHttps(url) == url.scheme = "https"

\* setCookie(c, name, value, opt)
SetCookie(q, name, cookie) == [q EXCEPT !.cookies[name] = cookie]

\* return c.json({ success: true, ... })
Succeed(q) == [Respond(q, 200, "") EXCEPT !.success = TRUE]

\* The user object of the identity provider.
ProviderUser(id, email, firstName, lastName) ==
  [id |-> id, email |-> email, firstName |-> firstName, lastName |-> lastName]

\* What authenticateWithCode can give for an authorization code: it throws,
\* or it returns the user the code was issued for, with or without a sealed
\* session.
CodeResult(threw, user, sealedSession) ==
  [threw |-> threw, user |-> user, sealedSession |-> sealedSession]

CodeOutcomes(code) ==
  { CodeResult(TRUE, ProviderUser(UNDEF, UNDEF, UNDEF, UNDEF), UNDEF) }
  \cup (IF code = "codeA"
        THEN { CodeResult(FALSE, ProviderUser("u1", "a@idp", "Anna", JsNull),
                          "sealA") }
        ELSE IF code = "codeB"
        THEN { CodeResult(FALSE, ProviderUser("u2", "b@idp", JsNull, "Lee"),
                          UNDEF) }
        ELSE {})

\* Mutant of AuthTokenCookie: the cookie is given the lifetime of the
\* provider-session cookie.
AuthTokenCookie_SessionAge(token, url) ==
  Cookie(token, TRUE, IsHttps(url), "Lax", "/", 60 * 60 * 24 * 7)

\* The auth_token cookie of a successful exchange, lines 102-110.
AuthTokenCookie(token, url) ==
  Cookie(token, TRUE, IsHttps(url), "Lax", "/", 60 * 60 * 24)

\* The wos-session cookie of a successful exchange, lines 117-125.
SealedSessionCookie(sealedSession, url) ==
  Cookie(sealedSession, TRUE, IsHttps(url), "Lax", "/", 60 * 60 * 24 * 7)

\* POST /exchange, lines 51-69: up to authenticateWithCode.
ExchangeEnter(q) ==
  IF ~Truthy(q.code)
  THEN Respond(q, 400, "Missing authorization code")
  ELSE Await(q, "await_authenticateWithCode", "authenticateWithCode")

\* POST /exchange, lines 69-86 and 139-142: authenticateWithCode has returned
\* `a` (or thrown).
OnAuthenticateWithCode(q, a) ==
  IF a.threw
  THEN Respond(q, 500, "Authentication failed")
  ELSE Await([q EXCEPT !.user = Identity(a.user.id, a.user.email,
                                         a.user.firstName, a.user.lastName),
                       !.sealedSession = a.sealedSession],
             "await_upsert_exchange", "executeQuery")

\* POST /exchange, lines 88-98: the token for the authenticated user.
ExchangeToken(q, secret, t) ==
  createJWT(UserData(q.user.sub, OrUndefined(q.user.email),
                     OrUndefined(q.user.firstName), OrUndefined(q.user.lastName)),
            secret, t)

\* Mutant of OnExchangeUpsert: the upsert is not awaited inside the try, so
\* its rejection does not stop the token from being minted.
OnExchangeUpsert_IgnoresUpsertFailure(q, ok, secret, t) ==
  LET q0 == [q EXCEPT !.calls = Append(@, IF ok THEN "executeQuery.ok"
                                               ELSE "executeQuery.err")]
      res == ExchangeToken(q, secret, t)
      q1 == SetCookie(q0, "auth_token", AuthTokenCookie(res.token, q.url))
      q2 == IF Truthy(q.sealedSession)
            THEN SetCookie(q1, "wos_session",
                           SealedSessionCookie(q.sealedSession, q.url))
            ELSE q1
  IN
  IF ~res.ok
  THEN Respond(q0, 500, "Authentication failed")
  ELSE Succeed(q2)

\* Mutant of OnExchangeUpsert: the provider-session cookie is set before the
\* token is created.
OnExchangeUpsert_SessionCookieFirst(q, ok, secret, t) ==
  IF ~ok
  THEN Respond([q EXCEPT !.calls = Append(@, "executeQuery.err")],
               500, "Authentication failed")
  ELSE LET q0 == [q EXCEPT !.calls = Append(@, "executeQuery.ok")]
           q1 == IF Truthy(q.sealedSession)
                 THEN SetCookie(q0, "wos_session",
                                SealedSessionCookie(q.sealedSession, q.url))
                 ELSE q0
           res == ExchangeToken(q, secret, t)
       IN
       IF ~res.ok
       THEN Respond(q1, 500, "Authentication failed")
       ELSE Succeed(SetCookie(q1, "auth_token", AuthTokenCookie(res.token, q.url)))

\* POST /exchange, lines 79-142: the upsert has resolved (ok) or rejected, at
\* time t under the configured secret.
OnExchangeUpsert(q, ok, secret, t) ==
  IF ~ok
  THEN Respond([q EXCEPT !.calls = Append(@, "executeQuery.err")],
               500, "Authentication failed")
  ELSE LET q0 == [q EXCEPT !.calls = Append(@, "executeQuery.ok")]
           res == ExchangeToken(q, secret, t)
           q1 == SetCookie(q0, "auth_token", AuthTokenCookie(res.token, q.url))
           q2 == IF Truthy(q.sealedSession)
                 THEN SetCookie(q1, "wos_session",
                                SealedSessionCookie(q.sealedSession, q.url))
                 ELSE q1
       IN
       IF ~res.ok
       THEN Respond(q0, 500, "Authentication failed")
       ELSE Succeed(q2)

\* The cookies a successful logout clears, lines 347-353 and 356-359.
ClearedAuthToken(url) == Cookie(NoToken, TRUE, IsHttps(url), "Lax", "/", 0)
ClearedSession == Cookie("", FALSE, FALSE, UNDEF, "/", 0)

\* POST /logout, lines 317-331: up to verifyJWT.
LogoutEnter(q) ==
  IF q.customAuthToken.fmt = "absent"
  THEN Respond(q, 401, "Not authenticated - already logged out")
  ELSE Await(q, "await_logout_verifyJWT", "verifyJWT")

\* Mutant of OnLogoutVerify: the verification error is logged and the logout
\* goes on.
OnLogoutVerify_IgnoresFailure(q, res, workosThrew) ==
  LET q1 == SetCookie(SetCookie([q EXCEPT !.payload = res],
                                "auth_token", ClearedAuthToken(q.url)),
                      "wos_session", ClearedSession)
      q2 == [q1 EXCEPT !.calls = Append(@, "new WorkOS")]
  IN
  IF workosThrew \/ ~Truthy(q.sessionCookie)
  THEN Succeed(q2)
  ELSE Await(q2, "await_getLogoutUrl", "loadSealedSession")

\* POST /logout, lines 329-369 and 405-411: verifyJWT has returned `res` (or
\* thrown); `new WorkOS` may throw.
OnLogoutVerify(q, res, workosThrew) ==
  IF ~res.ok
  THEN Respond([q EXCEPT !.payload = res], 401, "Invalid or expired token")
  ELSE LET q1 == SetCookie(SetCookie([q EXCEPT !.payload = res],
                                     "auth_token", ClearedAuthToken(q.url)),
                           "wos_session", ClearedSession)
           q2 == [q1 EXCEPT !.calls = Append(@, "new WorkOS")]
       IN
       IF workosThrew \/ ~Truthy(q.sessionCookie)
       THEN Succeed(q2)
       ELSE Await(q2, "await_getLogoutUrl", "loadSealedSession")

\* What loading the sealed session and asking it for the logout URL can do.
LogoutUrlOutcomes == {"loadSealedSession.err", "getLogoutUrl.err", "getLogoutUrl.ok"}

\* Mutant of OnGetLogoutUrl: a failure of the provider is answered 500.
OnGetLogoutUrl_FailsLogout(q, o) ==
  LET q1 == [q EXCEPT !.calls = Append(@, o)] IN
  IF o = "getLogoutUrl.ok"
  THEN Succeed([q1 EXCEPT !.workosLogoutUrl = "logoutUrl"])
  ELSE Respond(q1, 500, "Logout failed")

\* POST /logout, lines 370-404: the sealed session was loaded and asked for
\* its logout URL, with outcome o.
OnGetLogoutUrl(q, o) ==
  LET q1 == [q EXCEPT !.calls = Append(@, o)] IN
  IF o = "getLogoutUrl.ok"
  THEN Succeed([q1 EXCEPT !.workosLogoutUrl = "logoutUrl"])
  ELSE Succeed(q1)

----------------------------------------------------------------------------
(* middleware/auth.ts and the route GET /api/profile of api/index.ts *)

\* getUserIdFromPayload(payload)
getUserIdFromPayload(payload) == payload.sub

\* authMiddleware, lines 8-21: up to verifyJWT.
AuthMiddlewareEnter(q) ==
  IF q.customAuthToken.fmt = "absent"
  THEN Respond(q, 401, "Unauthorized - Missing authentication token")
  ELSE Await(q, "await_mw_verifyJWT", "verifyJWT")

\* authMiddleware, lines 21-35: verifyJWT has returned `res` (or thrown).
OnMiddlewareVerify(q, res) ==
  IF res.ok
  THEN [q EXCEPT !.payload = res, !.userId = getUserIdFromPayload(res.payload),
                 !.nextCalls = @ + 1, !.pc = "profile"]
  ELSE Respond([q EXCEPT !.payload = res],
               401, "Unauthorized - Invalid or expired token")

\* GET /api/profile, lines 54-61: up to the SELECT.
ProfileEnter(q) ==
  Await([q EXCEPT !.handlerRan = TRUE], "await_profile_select", "SELECT")

\* GET /api/profile, lines 63-81: the SELECT has returned (a row or none) or
\* thrown.
OnProfileSelect(q, threw, found) ==
  IF threw THEN Respond(q, 500, "Failed to fetch user profile")
  ELSE IF ~found THEN Respond(q, 404, "User not found")
  ELSE Respond(q, 200, "")

----------------------------------------------------------------------------
(* A caller of utils/jwt.ts: createJWT, then verifyJWT of what it presents *)

KEmpty == [id |-> "", len |-> 0]

CodecSecrets == {K1, K2, KWeak, KEmpty}

\* The claims handed to createJWT: every optional field present, absent or
\* (email, lastName) the empty string.
ClaimSets ==
  { UserData("u1", e, f, l) :
      e \in {UNDEF, "", "a@app"}, f \in {UNDEF, "Ann"}, l \in {UNDEF, "", "Lee"} }

\* Mutant of SecretRejected: only the missing secret is refused, its length
\* is not looked at.
SecretRejected_EmptyOnly(secret) == secret.id = ""

\* !secret || secret.length < 32
SecretRejected(secret) == secret.id = "" \/ secret.len < MIN_SECRET_LEN

NoCreated == [ok |-> FALSE, error |-> "", token |-> NoToken]

\* The caller: its position, the arguments and result of createJWT, the
\* arguments and result of verifyJWT (kind tells how the presented token
\* relates to the created one), the time of the verification, and the
\* calls made into the signing library.
CodecIdle ==
  [pc |-> "idle",
   userData |-> UserData(UNDEF, UNDEF, UNDEF, UNDEF), secret |-> KEmpty,
   issuedAt |-> 0, created |-> NoCreated,
   kind |-> "", token |-> NoToken, vsecret |-> KEmpty,
   at |-> 0, verified |-> NoResult,
   crypto |-> << >>]

\* createJWT, lines 35-37: the check of the secret.
CreateCheck(c) ==
  IF SecretRejected(c.secret)
  THEN [c EXCEPT !.pc = "created",
                 !.created = [ok |-> FALSE, error |-> WeakSecretMsg,
                              token |-> NoToken]]
  ELSE [c EXCEPT !.pc = "sign"]

\* createJWT, lines 39-59: the payload is built and signed at time t.
CreateSign(c, t) ==
  [c EXCEPT !.pc = "created", !.issuedAt = t,
            !.created = createJWT(c.userData, c.secret, t),
            !.crypto = Append(@, "SignJWT.sign")]

\* The ways a token can be altered after signing: a payload field changed,
\* the expiry pushed back, the signature changed, the algorithm set to none
\* with the signature dropped, the header naming another HMAC algorithm with
\* a signature the same secret made for it, and the token cut short.
Alterations(tok, secret) ==
  { [tok EXCEPT !.sub = "u2"],
    [tok EXCEPT !.email = "x@evil"],
    [tok EXCEPT !.exp = @ + 1],
    [tok EXCEPT !.mac.key = "forged"],
    [tok EXCEPT !.alg = "none", !.mac = NoMac],
    [tok EXCEPT !.alg = "HS512",
                !.mac = Sign(secret, "HS512", tok.sub, tok.email, tok.firstName,
                             tok.lastName, tok.iat, tok.exp)],
    Garbage }

\* What the caller can present to verifyJWT after createJWT at time t, with
\* its kind: the token it was given, the token it was given for the same
\* claims one clock unit earlier, an alteration of the token, or, when
\* createJWT refused the secret, a token signed under it all the same.
Presentable(c) ==
  IF c.created.ok
  THEN { [kind |-> "same", token |-> c.created.token],
         [kind |-> "earlier",
          token |-> createJWT(c.userData, c.secret, c.issuedAt - 1).token] }
       \cup { [kind |-> "altered", token |-> a] :
                a \in Alterations(c.created.token, c.secret) }
  ELSE { [kind |-> "signed",
          token |-> SignJWT(c.userData.userId, c.userData.email,
                            c.userData.firstName, c.userData.lastName,
                            c.secret, c.issuedAt)] }

\* verifyJWT, lines 69-71: the check of the secret.
VerifyCheck(c) ==
  IF SecretRejected(c.vsecret)
  THEN [c EXCEPT !.pc = "verified",
                 !.verified = [ok |-> FALSE, error |-> WeakSecretMsg,
                               payload |-> NoPayload]]
  ELSE [c EXCEPT !.pc = "jwtVerify"]

\* verifyJWT, lines 73-95: jwtVerify is called at time t.
VerifyToken(c, t) ==
  [c EXCEPT !.pc = "verified", !.at = t,
            !.verified = verifyJWT(c.token, c.vsecret, t),
            !.crypto = Append(@, "jwtVerify")]

----------------------------------------------------------------------------
(* Requests the model sends *)

\* Tokens issued at time 0 under K1 for u1 and u2.
TokU1 == createJWT(UserData("u1", "a@app", "Ann", UNDEF), K1, 0).token
TokU2 == createJWT(UserData("u2", "b@app", UNDEF, UNDEF), K1, 0).token
\* The same claims signed with another secret, a payload altered after
\* signing, an unsigned token, and a token K1 signed without a subject.
TokOtherKey == createJWT(UserData("u1", "a@app", "Ann", UNDEF), K2, 0).token
TokTampered == [TokU1 EXCEPT !.sub = "u2"]
TokAlgNone == [TokU1 EXCEPT !.alg = "none", !.mac = NoMac]
TokNoSub == SignJWT(UNDEF, "a@app", UNDEF, UNDEF, K1, 0)

CookieTokens ==
  {NoToken, Garbage, TokU1, TokOtherKey, TokTampered, TokAlgNone, TokNoSub}

AuthHeaders ==
  {NoHeader, Header("Bearer ", "tokB"), Header("Bearer ", "tokA"),
   Header("Bearer ", "bad"), Header("Bearer ", ""), Header("Bearer ", " "),
   Header("bearer ", "tokB")}

SessionCookies == {UNDEF, "sealA", "sealX"}

\* Requests that exercise the resolver: every combination of carriers, on
\* the list route and the photo route.
ResolverRequests ==
  { [q EXCEPT !.customAuthToken = t, !.authHeader = h, !.sessionCookie = s] :
      t \in CookieTokens, h \in AuthHeaders, s \in SessionCookies,
      q \in { [Idle EXCEPT !.route = "GET /"],
              [Idle EXCEPT !.route = "GET /photo", !.key = << "u1", "0-a.png" >>] } }

PhotoFiles ==
  {File("image/png", 1, "a.png"), File("image/png", 1, "b c.png"),
   File("text/html", 1, "a.png"), File("image/gif", MAX_FILE_SIZE + 1, "a.png")}

PhotoKeys ==
  {NoKey, << "" >>, << "u1" >>, << "u1", "0-a.png" >>, << "u2", "0-a.png" >>,
   << "u1", "1-a.png" >>}

\* A POST / with the given content type, name and photo part.
Post(contentType, name, photo) ==
  [Idle EXCEPT !.route = "POST /", !.contentType = contentType,
               !.body = [name |-> name], !.photo = photo]

\* Requests that exercise the avatar routes: reads of photo keys, creations
\* (well-formed ones and one of each kind of rejected input) and listings,
\* by callers who hold a token of u1, a token of u2, a signed token that
\* names no subject, or nothing.
AvatarRequests ==
  { [q EXCEPT !.customAuthToken = t] :
      t \in {NoToken, TokU1, TokU2, TokNoSub},
      q \in { [Idle EXCEPT !.route = "GET /photo", !.key = k] : k \in PhotoKeys }
            \cup { Post("multipart/form-data", "Rex", f) : f \in PhotoFiles }
            \cup { Post("multipart/form-data", "Rex", NoFile),
                   Post("multipart/form-data", "", File("image/png", 1, "a.png")),
                   Post("application/json", "Rex", NoFile),
                   Post("application/json", "", NoFile),
                   Post("text/plain", "Rex", NoFile),
                   [Idle EXCEPT !.route = "GET /"] } }

\* The :id parameters of DELETE /:id the model uses.
IdParams == {"1", "2", "01", "x"}

\* Requests that exercise the avatar store: creations with and without a
\* photo, listings and deletions, by callers who hold a token of u1 or of u2.
StoreRequests ==
  { [q EXCEPT !.customAuthToken = t] :
      t \in {TokU1, TokU2},
      q \in { Post("multipart/form-data", "Rex", File("image/png", 1, "a.png")),
              Post("application/json", "Rex", NoFile),
              [Idle EXCEPT !.route = "GET /"] }
            \cup { [Idle EXCEPT !.route = "DELETE /:id", !.idParam = i] :
                     i \in IdParams } }

Urls == {Url("https", "api.example/auth"), Url("http", "localhost:8787/auth")}

AuthCodes == {UNDEF, "codeA", "codeB", "bad"}

\* The tokens a client can present in the auth_token cookie: those the
\* exchange has issued so far, none, and some it was never issued.
PresentedTokens == issued \cup {NoToken, Garbage, TokU1, TokOtherKey}

\* Requests to the auth routes, to the cookie-only profile route and to the
\* avatar list.
AuthRequests ==
  { [Idle EXCEPT !.route = "POST /exchange", !.code = c, !.url = u] :
      c \in AuthCodes, u \in Urls }
  \cup { [Idle EXCEPT !.route = "POST /logout", !.customAuthToken = t,
                      !.sessionCookie = s, !.url = u] :
           t \in PresentedTokens, s \in SessionCookies, u \in Urls }
  \cup { [Idle EXCEPT !.route = rt, !.customAuthToken = t] :
           rt \in {"GET /api/profile", "GET /"}, t \in PresentedTokens }

\* Requests that carry the custom-token cookie or nothing, to the avatar
\* list and to the profile route.
PairRequests ==
  { [Idle EXCEPT !.route = rt, !.customAuthToken = t] :
      rt \in {"GET /", "GET /api/profile"},
      t \in {NoToken, Garbage, TokU1, TokOtherKey, TokTampered} }

----------------------------------------------------------------------------
(* Actions *)

Update(r, q) == rq' = [rq EXCEPT ![r] = q]

\* A request from the set S arrives in slot r.
Begin(r, S) ==
  /\ rq[r].pc = "idle"
  /\ \E q \in S :
       /\ q.route = "POST /" =>
            nextId <= MaxAvatars /\ Cardinality(bucket) < MaxAvatars
       /\ Update(r, [q EXCEPT !.pc = "verify"])
  /\ UNCHANGED <<now, env, users, avatars, nextId, bucket, issued, loggedOut, cd>>

Verify(r) ==
  /\ rq[r].pc = "verify"
  /\ Update(r, VerifyEnter(rq[r]))
  /\ UNCHANGED <<now, env, users, avatars, nextId, bucket, issued, loggedOut, cd>>

VerifyJWTReturns(r) ==
  /\ rq[r].pc = "await_verifyJWT"
  /\ Update(r, OnVerifyJWT(rq[r],
                 verifyJWT(rq[r].customAuthToken, env.WORKOS_COOKIE_PASSWORD, now)))
  /\ UNCHANGED <<now, env, users, avatars, nextId, bucket, issued, loggedOut, cd>>

\* The provider's keys may also be unreachable: jwtVerify then throws.
JwtVerifyReturns(r) ==
  /\ rq[r].pc = "await_jwtVerify"
  /\ \E p \in {ProviderClaims(rq[r].authHeader.rest), BearerFailure} :
       Update(r, OnJwtVerify(rq[r], p))
  /\ UNCHANGED <<now, env, users, avatars, nextId, bucket, issued, loggedOut, cd>>

AuthenticateReturns(r) ==
  /\ rq[r].pc = "await_authenticate"
  /\ \E a \in SessionOutcomes(rq[r].sessionCookie) :
       Update(r, OnAuthenticate(rq[r], a))
  /\ UNCHANGED <<now, env, users, avatars, nextId, bucket, issued, loggedOut, cd>>

UpsertReturns(r) ==
  /\ rq[r].pc \in {"await_upsert_bearer", "await_upsert_session"}
  /\ \E ok \in BOOLEAN :
       /\ Update(r, OnUpsert(rq[r], ok))
       /\ users' = IF ok THEN UserUpsert(users, rq[r].user) ELSE users
  /\ UNCHANGED <<now, env, avatars, nextId, bucket, issued, loggedOut, cd>>

Authorize(r) ==
  /\ rq[r].pc = "authorize"
  /\ Update(r, OnAuthorize(rq[r]))
  /\ UNCHANGED <<now, env, users, avatars, nextId, bucket, issued, loggedOut, cd>>

\* The route handler starts.
Handle(r) ==
  /\ rq[r].pc = "handler"
  /\ LET q == [rq[r] EXCEPT !.handlerRan = TRUE] IN
       Update(r, CASE q.route = "GET /" -> ListEnter(q)
                   [] q.route = "GET /photo" -> PhotoEnter(q)
                   [] q.route = "POST /" -> PostEnter(q, now)
                   [] q.route = "DELETE /:id" -> DeleteEnter(q))
  /\ UNCHANGED <<now, env, users, avatars, nextId, bucket, issued, loggedOut, cd>>

SelectReturns(r) ==
  /\ rq[r].pc = "await_select"
  /\ \E threw \in BOOLEAN :
       Update(r, OnSelect(rq[r], threw, SelectByUser(avatars, rq[r].jwt.sub)))
  /\ UNCHANGED <<now, env, users, avatars, nextId, bucket, issued, loggedOut, cd>>

BucketGetReturns(r) ==
  /\ rq[r].pc = "await_bucket_get"
  /\ \E threw \in BOOLEAN :
       Update(r, OnBucketGet(rq[r], threw, rq[r].key \in bucket))
  /\ UNCHANGED <<now, env, users, avatars, nextId, bucket, issued, loggedOut, cd>>

BucketPutReturns(r) ==
  /\ rq[r].pc = "await_bucket_put"
  /\ \E threw \in BOOLEAN :
       /\ Update(r, OnBucketPut(rq[r], threw))
       /\ bucket' = IF threw THEN bucket ELSE bucket \cup {rq[r].photoKey}
  /\ UNCHANGED <<now, env, users, avatars, nextId, issued, loggedOut, cd>>

InsertReturns(r) ==
  /\ rq[r].pc = "await_insert"
  /\ \E threw \in BOOLEAN :
       /\ Update(r, OnInsert(rq[r], threw))
       /\ avatars' = IF threw THEN avatars
                     ELSE avatars \cup {NewAvatar(rq[r], nextId)}
       /\ nextId' = IF threw THEN nextId ELSE nextId + 1
  /\ UNCHANGED <<now, env, users, bucket, issued, loggedOut, cd>>

DeleteSelectReturns(r) ==
  /\ rq[r].pc = "await_delete_select"
  /\ \E threw \in BOOLEAN :
       Update(r, OnDeleteSelect(rq[r], threw,
                   SelectOwned(avatars, NumberOf[rq[r].idParam], rq[r].jwt.sub)))
  /\ UNCHANGED <<now, env, users, avatars, nextId, bucket, issued, loggedOut, cd>>

\* bucket.delete resolves, the object gone, or rejects.
BucketDeleteReturns(r) ==
  /\ rq[r].pc = "await_bucket_delete"
  /\ \E threw \in BOOLEAN :
       /\ Update(r, OnBucketDelete(rq[r], threw))
       /\ bucket' = IF threw THEN bucket
                    ELSE bucket \ {KeyOfUrl(rq[r].avatar.photo_url)}
  /\ UNCHANGED <<now, env, users, avatars, nextId, issued, loggedOut, cd>>

DeleteRowReturns(r) ==
  /\ rq[r].pc = "await_delete"
  /\ \E threw \in BOOLEAN :
       /\ Update(r, OnDeleteRow(rq[r], threw))
       /\ avatars' = IF threw THEN avatars
                     ELSE DeleteFrom(avatars, NumberOf[rq[r].idParam])
  /\ UNCHANGED <<now, env, users, nextId, bucket, issued, loggedOut, cd>>

\* Where a request to the route starts: the auth routes have no middleware,
\* the profile route has authMiddleware, the avatar routes have verify.
Entry(route) ==
  CASE route = "POST /exchange" -> "exchange"
    [] route = "POST /logout" -> "logout"
    [] route = "GET /api/profile" -> "authMiddleware"
    [] OTHER -> "verify"

\* A request to the auth routes, the profile route or the avatar list
\* arrives in slot r.
AuthBegin(r) ==
  /\ rq[r].pc = "idle"
  /\ \E q \in AuthRequests :
       /\ q.route = "POST /exchange" => Cardinality(issued) < MaxIssued
       /\ Update(r, [q EXCEPT !.pc = Entry(q.route)])
  /\ UNCHANGED <<now, env, users, avatars, nextId, bucket, issued, loggedOut, cd>>

Exchange(r) ==
  /\ rq[r].pc = "exchange"
  /\ Update(r, ExchangeEnter(rq[r]))
  /\ UNCHANGED <<now, env, users, avatars, nextId, bucket, issued, loggedOut, cd>>

AuthenticateWithCodeReturns(r) ==
  /\ rq[r].pc = "await_authenticateWithCode"
  /\ \E a \in CodeOutcomes(rq[r].code) :
       Update(r, OnAuthenticateWithCode(rq[r], a))
  /\ UNCHANGED <<now, env, users, avatars, nextId, bucket, issued, loggedOut, cd>>

\* The upsert resolves or rejects; the token the response carries is in the
\* client's hands from then on.
ExchangeUpsertReturns(r) ==
  /\ rq[r].pc = "await_upsert_exchange"
  /\ \E ok \in BOOLEAN :
       LET q == OnExchangeUpsert(rq[r], ok, env.WORKOS_COOKIE_PASSWORD, now) IN
       /\ Update(r, q)
       /\ users' = IF ok THEN UserUpsert(users, rq[r].user) ELSE users
       /\ issued' = IF q.cookies.auth_token.set
                    THEN issued \cup {q.cookies.auth_token.value}
                    ELSE issued
  /\ UNCHANGED <<now, env, avatars, nextId, bucket, loggedOut, cd>>

Logout(r) ==
  /\ rq[r].pc = "logout"
  /\ Update(r, LogoutEnter(rq[r]))
  /\ UNCHANGED <<now, env, users, avatars, nextId, bucket, issued, loggedOut, cd>>

LogoutVerifyReturns(r) ==
  /\ rq[r].pc = "await_logout_verifyJWT"
  /\ LET res == verifyJWT(rq[r].customAuthToken, env.WORKOS_COOKIE_PASSWORD, now) IN
       /\ \E workosThrew \in BOOLEAN :
            Update(r, OnLogoutVerify(rq[r], res, workosThrew))
       /\ loggedOut' = IF res.ok THEN loggedOut \cup {rq[r].customAuthToken}
                       ELSE loggedOut
  /\ UNCHANGED <<now, env, users, avatars, nextId, bucket, issued, cd>>

GetLogoutUrlReturns(r) ==
  /\ rq[r].pc = "await_getLogoutUrl"
  /\ \E o \in LogoutUrlOutcomes : Update(r, OnGetLogoutUrl(rq[r], o))
  /\ UNCHANGED <<now, env, users, avatars, nextId, bucket, issued, loggedOut, cd>>

AuthMiddleware(r) ==
  /\ rq[r].pc = "authMiddleware"
  /\ Update(r, AuthMiddlewareEnter(rq[r]))
  /\ UNCHANGED <<now, env, users, avatars, nextId, bucket, issued, loggedOut, cd>>

MiddlewareVerifyReturns(r) ==
  /\ rq[r].pc = "await_mw_verifyJWT"
  /\ Update(r, OnMiddlewareVerify(rq[r],
                 verifyJWT(rq[r].customAuthToken, env.WORKOS_COOKIE_PASSWORD, now)))
  /\ UNCHANGED <<now, env, users, avatars, nextId, bucket, issued, loggedOut, cd>>

Profile(r) ==
  /\ rq[r].pc = "profile"
  /\ Update(r, ProfileEnter(rq[r]))
  /\ UNCHANGED <<now, env, users, avatars, nextId, bucket, issued, loggedOut, cd>>

ProfileSelectReturns(r) ==
  /\ rq[r].pc = "await_profile_select"
  /\ \E threw \in BOOLEAN :
       Update(r, OnProfileSelect(rq[r], threw,
                   rq[r].userId \in UserIds /\ users[rq[r].userId].present))
  /\ UNCHANGED <<now, env, users, avatars, nextId, bucket, issued, loggedOut, cd>>

\* The caller calls createJWT.
CodecCreate ==
  /\ cd.pc = "idle"
  /\ \E u \in ClaimSets, k \in CodecSecrets :
       cd' = [cd EXCEPT !.pc = "createJWT", !.userData = u, !.secret = k,
                        !.issuedAt = now]
  /\ UNCHANGED <<now, env, users, avatars, nextId, bucket, rq, issued, loggedOut>>

CodecCreateCheck ==
  /\ cd.pc = "createJWT"
  /\ cd' = CreateCheck(cd)
  /\ UNCHANGED <<now, env, users, avatars, nextId, bucket, rq, issued, loggedOut>>

CodecSign ==
  /\ cd.pc = "sign"
  /\ cd' = CreateSign(cd, now)
  /\ UNCHANGED <<now, env, users, avatars, nextId, bucket, rq, issued, loggedOut>>

\* The caller calls verifyJWT.
CodecVerify ==
  /\ cd.pc = "created"
  /\ \E p \in Presentable(cd), k \in CodecSecrets :
       cd' = [cd EXCEPT !.pc = "verifyJWT", !.kind = p.kind, !.token = p.token,
                        !.vsecret = k]
  /\ UNCHANGED <<now, env, users, avatars, nextId, bucket, rq, issued, loggedOut>>

CodecVerifyCheck ==
  /\ cd.pc = "verifyJWT"
  /\ cd' = VerifyCheck(cd)
  /\ UNCHANGED <<now, env, users, avatars, nextId, bucket, rq, issued, loggedOut>>

CodecJwtVerify ==
  /\ cd.pc = "jwtVerify"
  /\ cd' = VerifyToken(cd, now)
  /\ UNCHANGED <<now, env, users, avatars, nextId, bucket, rq, issued, loggedOut>>

\* The caller starts over.
CodecReturn ==
  /\ cd.pc = "verified"
  /\ cd' = CodecIdle
  /\ UNCHANGED <<now, env, users, avatars, nextId, bucket, rq, issued, loggedOut>>

\* One of two concurrent clients sends a request in slot r.
PairBegin(r) ==
  /\ rq[r].pc = "idle"
  /\ \E q \in PairRequests : Update(r, [q EXCEPT !.pc = Entry(q.route)])
  /\ UNCHANGED <<now, env, users, avatars, nextId, bucket, issued, loggedOut, cd>>

\* The response has been sent; the request's context is gone.
Finish(r) ==
  /\ rq[r].pc = "done"
  /\ Update(r, Idle)
  /\ UNCHANGED <<now, env, users, avatars, nextId, bucket, issued, loggedOut, cd>>

Tick ==
  /\ now < MaxTime
  /\ now' = now + 1
  /\ UNCHANGED <<env, users, avatars, nextId, bucket, rq, issued, loggedOut, cd>>

----------------------------------------------------------------------------
(* Specifications *)

InitWith(secrets) ==
  /\ now = 0
  /\ env \in {[WORKOS_COOKIE_PASSWORD |-> k] : k \in secrets}
  /\ users = [u \in UserIds |-> NoRow]
  /\ avatars = {}
  /\ nextId = 1
  /\ bucket = {}
  /\ rq = [r \in Reqs |-> Idle]
  /\ issued = {}
  /\ loggedOut = {}
  /\ cd = CodecIdle

\* The resolver under every combination of carriers, with a strong or a
\* weak configured secret.
Init == InitWith({K1, KWeak})

Next ==
  \/ Begin(1, ResolverRequests)
  \/ Verify(1)
  \/ VerifyJWTReturns(1)
  \/ JwtVerifyReturns(1)
  \/ AuthenticateReturns(1)
  \/ UpsertReturns(1)
  \/ Authorize(1)
  \/ Handle(1)
  \/ SelectReturns(1)
  \/ BucketGetReturns(1)
  \/ Finish(1)
  \/ Tick

Spec == Init /\ [][Next]_vars

\* The avatar routes, for callers holding first-party tokens.
InitAvatar == InitWith({K1})

NextAvatar ==
  \/ Begin(1, AvatarRequests)
  \/ Verify(1)
  \/ VerifyJWTReturns(1)
  \/ Authorize(1)
  \/ Handle(1)
  \/ SelectReturns(1)
  \/ BucketGetReturns(1)
  \/ BucketPutReturns(1)
  \/ InsertReturns(1)
  \/ Finish(1)
  \/ Tick

SpecAvatar == InitAvatar /\ [][NextAvatar]_vars

\* The auth routes, the cookie-only profile route and the avatar list, for
\* clients that present the tokens the exchange issued.
InitAuth == InitWith({K1, KWeak})

NextAuth ==
  \/ AuthBegin(1)
  \/ Exchange(1)
  \/ AuthenticateWithCodeReturns(1)
  \/ ExchangeUpsertReturns(1)
  \/ Logout(1)
  \/ LogoutVerifyReturns(1)
  \/ GetLogoutUrlReturns(1)
  \/ AuthMiddleware(1)
  \/ MiddlewareVerifyReturns(1)
  \/ Profile(1)
  \/ ProfileSelectReturns(1)
  \/ Verify(1)
  \/ VerifyJWTReturns(1)
  \/ Authorize(1)
  \/ Handle(1)
  \/ SelectReturns(1)
  \/ Finish(1)
  \/ Tick

SpecAuth == InitAuth /\ [][NextAuth]_vars

\* The token codec on its own: createJWT and verifyJWT over the claims,
\* secrets, tokens and times of a caller.
InitJwt == InitWith({K1})

NextJwt ==
  \/ CodecCreate
  \/ CodecCreateCheck
  \/ CodecSign
  \/ CodecVerify
  \/ CodecVerifyCheck
  \/ CodecJwtVerify
  \/ CodecReturn
  \/ Tick

SpecJwt == InitJwt /\ [][NextJwt]_vars

\* Two requests side by side, each carrying the custom-token cookie or
\* nothing, under a strong configured secret.
InitPair == InitWith({K1})

NextPair ==
  \/ \E r \in Reqs : PairBegin(r)
  \/ \E r \in Reqs : Verify(r)
  \/ \E r \in Reqs : VerifyJWTReturns(r)
  \/ \E r \in Reqs : Authorize(r)
  \/ \E r \in Reqs : Handle(r)
  \/ \E r \in Reqs : SelectReturns(r)
  \/ \E r \in Reqs : AuthMiddleware(r)
  \/ \E r \in Reqs : MiddlewareVerifyReturns(r)
  \/ \E r \in Reqs : Profile(r)
  \/ \E r \in Reqs : ProfileSelectReturns(r)
  \/ \E r \in Reqs : Finish(r)
  \/ Tick

SpecPair == InitPair /\ [][NextPair]_vars

----------------------------------------------------------------------------
(* The avatar store *)

\* Creations, listings and deletions by two users, in every order, one
\* request after the other.
InitStore == InitWith({K1})

NextStore ==
  \/ Begin(1, StoreRequests)
  \/ Verify(1)
  \/ VerifyJWTReturns(1)
  \/ Authorize(1)
  \/ Handle(1)
  \/ SelectReturns(1)
  \/ BucketPutReturns(1)
  \/ InsertReturns(1)
  \/ DeleteSelectReturns(1)
  \/ BucketDeleteReturns(1)
  \/ DeleteRowReturns(1)
  \/ Finish(1)
  \/ Tick

SpecStore == InitStore /\ [][NextStore]_vars

----------------------------------------------------------------------------
(* Two bearer requests side by side *)

\* Mutant of ExecUserUpsert: a plain INSERT, which the primary key of users
\* rejects when the row is already there.
ExecUserUpsert_PlainInsert(table, user) ==
  IF table[user.sub].present
  THEN [ok |-> FALSE, users |-> table]
  ELSE [ok |-> TRUE, users |-> UserUpsert(table, user)]

\* The statement of buildUserUpsertQuery run by an available database: one
\* statement, INSERT ... ON CONFLICT(id) DO UPDATE, so a row that is already
\* there is overwritten and the statement does not fail on it.
ExecUserUpsert(table, user) ==
  [ok |-> TRUE, users |-> UserUpsert(table, user)]

\* Requests that carry nothing but an Authorization header.
BearerRequests ==
  { [Idle EXCEPT !.route = "GET /", !.authHeader = h] :
      h \in {Header("Bearer ", "tokA"), Header("Bearer ", "tokB"),
             Header("Bearer ", "bad")} }

BearerBegin(r) ==
  /\ rq[r].pc = "idle"
  /\ \E q \in BearerRequests : Update(r, [q EXCEPT !.pc = "verify"])
  /\ UNCHANGED <<now, env, users, avatars, nextId, bucket, issued, loggedOut, cd>>

\* jwtVerify returns with the provider's key set reachable.
KeySetVerifies(r) ==
  /\ rq[r].pc = "await_jwtVerify"
  /\ Update(r, OnJwtVerify(rq[r], ProviderClaims(rq[r].authHeader.rest)))
  /\ UNCHANGED <<now, env, users, avatars, nextId, bucket, issued, loggedOut, cd>>

\* The upsert returns from an available database.
UpsertExecutes(r) ==
  /\ rq[r].pc \in {"await_upsert_bearer", "await_upsert_session"}
  /\ LET res == ExecUserUpsert(users, rq[r].user) IN
       /\ Update(r, OnUpsert(rq[r], res.ok))
       /\ users' = res.users
  /\ UNCHANGED <<now, env, avatars, nextId, bucket, issued, loggedOut, cd>>

\* Two bearer requests in flight at once, their steps interleaved in every
\* order, with the provider's keys reachable and the database available.
InitConcurrent == InitWith({K1})

NextConcurrent ==
  \/ \E r \in Reqs : BearerBegin(r)
  \/ \E r \in Reqs : Verify(r)
  \/ \E r \in Reqs : KeySetVerifies(r)
  \/ \E r \in Reqs : UpsertExecutes(r)
  \/ \E r \in Reqs : Authorize(r)
  \/ \E r \in Reqs : Handle(r)
  \/ \E r \in Reqs : SelectReturns(r)
  \/ \E r \in Reqs : Finish(r)

SpecConcurrent == InitConcurrent /\ [][NextConcurrent]_vars

----------------------------------------------------------------------------
(* Properties *)

\* The capability `name` was called on behalf of q.
Called(q, name) == \E i \in DOMAIN q.calls : q.calls[i] = name

\* verify is past its custom-token stage.
PastCustom(q) == q.pc \notin {"idle", "verify", "await_verifyJWT"}

\* The request carries a bearer token as the code sees it, with a remainder
\* that is not blank.
BearerCarried(q) == HasBearer(q) /\ Trim(q.authHeader.rest) # ""

\* The Identity that the provider's claims for q's bearer token give.
BearerIdentity(q) ==
  LET p == ProviderClaims(q.authHeader.rest) IN
  Identity(p.sub, p.email, p.first_name, p.last_name)

\* C1: a custom-token cookie that verifies under the configured secret is the
\* only carrier consulted: verification succeeds, the Identity is exactly
\* the token's (sub, email, firstName, lastName), the continuation is called,
\* and neither the bearer verifier, nor the session unsealer, nor the user
\* upsert is called, whatever else the request carries.
C1_CustomTokenWins ==
  \A r \in Reqs :
    LET q == rq[r]
        t == q.customAuthToken
    IN
    /\ ( /\ PastCustom(q)
         /\ verifyJWT(t, env.WORKOS_COOKIE_PASSWORD, now).ok )
       => q.payload.ok
    /\ q.payload.ok =>
         /\ q.jwtSet
         /\ q.jwt = Identity(t.sub, t.email, t.firstName, t.lastName)
         /\ q.nextCalls = 1
         /\ ~Called(q, "jwtVerify")
         /\ ~Called(q, "authenticate")
         /\ ~Called(q, "executeQuery")

C1_Witness ==
  \E r \in Reqs :
    /\ rq[r].pc = "done" /\ rq[r].status = 200
    /\ rq[r].payload.ok
    /\ rq[r].authHeader = Header("Bearer ", "tokB")
    /\ rq[r].sessionCookie = "sealA"

\* C2 as stated: whenever the custom token fails and the provider accepts
\* the bearer token, the request ends resolved from the bearer claims with the
\* continuation run.
C2_AsStated ==
  \A r \in Reqs :
    LET q == rq[r] IN
    ( /\ q.pc = "done"
      /\ q.customAuthToken.fmt # "absent" /\ ~q.payload.ok
      /\ BearerCarried(q) /\ Called(q, "executeQuery") )
    => /\ q.jwtSet /\ q.jwt = BearerIdentity(q)
       /\ q.nextCalls = 1

\* C2, amended: when the custom token is present but fails, a carried bearer
\* token is verified next; if the provider accepts it the upsert is called,
\* and then either the upsert succeeds, the Identity is the bearer claims and
\* the continuation runs, or the upsert fails and the request ends with an
\* error response, no Identity and no continuation.
C2_Fallthrough ==
  \A r \in Reqs :
    LET q == rq[r] IN
    ( /\ PastCustom(q)
      /\ q.customAuthToken.fmt # "absent" /\ ~q.payload.ok
      /\ BearerCarried(q) )
    => /\ q.payload.error # ""
       /\ Len(q.calls) >= 2 /\ q.calls[2] = "jwtVerify"
       /\ Called(q, "executeQuery") =>
            \/ q.pc = "await_upsert_bearer" /\ ~q.jwtSet
            \/ /\ Called(q, "executeQuery.ok")
               /\ q.jwtSet /\ q.jwt = BearerIdentity(q)
               /\ q.nextCalls = 1
            \/ /\ Called(q, "executeQuery.err")
               /\ q.pc = "done" /\ q.status >= 400
               /\ ~q.jwtSet /\ q.nextCalls = 0

C2_Witness ==
  \E r \in Reqs :
    /\ rq[r].pc = "done" /\ rq[r].status = 200
    /\ rq[r].customAuthToken = TokU1
    /\ rq[r].payload.error = "Token has expired"
    /\ rq[r].jwt = BearerIdentity(rq[r])
    /\ rq[r].jwt.sub = "u2"
    /\ rq[r].handlerRan

\* C3 as stated: a request whose only carrier is an expired custom token is
\* rejected with that token's own error (expired), not as a request without
\* credentials.
C3_ExpiredOnlyCarrier ==
  \A r \in Reqs :
    LET q == rq[r] IN
    ( /\ q.pc = "done"
      /\ q.payload.error = "Token has expired"
      /\ ~q.authHeader.present /\ ~Truthy(q.sessionCookie) )
    => /\ q.status = 401
       /\ q.error # "Unauthorized - Missing authentication"

\* The bearer verification of q has failed: the remainder is blank, or
\* jwtVerify was called and threw.
BearerFailed(q) ==
  /\ HasBearer(q)
  /\ \/ /\ q.pc \notin {"idle", "verify", "await_verifyJWT"}
        /\ ~q.payload.ok
        /\ Trim(q.authHeader.rest) = ""
     \/ /\ Called(q, "jwtVerify")
        /\ q.pc # "await_jwtVerify"
        /\ ~Called(q, "executeQuery")

\* C4: once the bearer carrier is reached and its token fails verification,
\* the request ends 401 as an invalid bearer, with no Identity and no
\* continuation; and a request whose Authorization header is a bearer
\* header never has its provider-session cookie unsealed.
C4_BearerFailureIsTerminal ==
  \A r \in Reqs :
    LET q == rq[r] IN
    /\ BearerFailed(q) =>
         /\ q.pc = "done" /\ q.status = 401
         /\ q.error \in {"Unauthorized - Invalid access token",
                         "Unauthorized - Invalid token"}
         /\ ~q.jwtSet /\ q.nextCalls = 0
    /\ HasBearer(q) => ~Called(q, "authenticate")

C4_Witness ==
  \E r \in Reqs :
    /\ rq[r].pc = "done" /\ rq[r].status = 401
    /\ rq[r].error = "Unauthorized - Invalid access token"
    /\ rq[r].authHeader = Header("Bearer ", "bad")
    /\ rq[r].sessionCookie = "sealA"
    /\ rq[r].customAuthToken = Garbage

\* q is a photo read whose handler has started with the Identity attached.
PhotoRead(q) == q.route = "GET /photo" /\ q.handlerRan

\* The first '/'-separated segment of a key; of an absent key, nothing.
FirstSegment(key) == IF key = NoKey THEN UNDEF ELSE key[1]

\* C5 as stated: every photo read of a key whose first segment differs from
\* the Identity's id is answered 403 without a bucket read.
C5_AsStated ==
  \A r \in Reqs :
    LET q == rq[r] IN
    (PhotoRead(q) /\ FirstSegment(q.key) # q.jwt.sub)
    => /\ ~Called(q, "bucket.get")
       /\ q.pc = "done" /\ q.status = 403

\* C5, amended: a photo read of a non-empty key whose first segment differs
\* from the Identity's id is answered 403, never 404, whether or not the
\* object exists; an absent or empty key is answered 400; in both cases the
\* bucket is not read, and it is read only for keys whose first segment is
\* the Identity's id.
C5_ReadOwnership ==
  \A r \in Reqs :
    LET q == rq[r] IN
    PhotoRead(q) =>
      /\ (~KeyMissing(q.key) /\ FirstSegment(q.key) # q.jwt.sub)
           => q.pc = "done" /\ q.status = 403
      /\ KeyMissing(q.key) => q.pc = "done" /\ q.status = 400
      /\ Called(q, "bucket.get")
           => ~KeyMissing(q.key) /\ FirstSegment(q.key) = q.jwt.sub

C5_Witness ==
  \E r \in Reqs :
    /\ PhotoRead(rq[r]) /\ rq[r].pc = "done" /\ rq[r].status = 403
    /\ rq[r].jwt.sub = "u1"
    /\ rq[r].key = << "u2", "0-a.png" >>
    /\ rq[r].key \in bucket

\* C6 as stated: a photo read of a key without a '/' separator is denied
\* with 403 and reads nothing from the bucket.
C6_FailsClosed ==
  \A r \in Reqs :
    LET q == rq[r] IN
    (PhotoRead(q) /\ ~KeyMissing(q.key) /\ Len(q.key) < 2)
    => /\ ~Called(q, "bucket.get")
       /\ q.pc = "done" /\ q.status = 403

\* The handler of q has started or has touched the database or the bucket.
HandlerTouched(q) ==
  \/ q.handlerRan
  \/ q.pc \in {"handler", "await_select", "await_bucket_get",
               "await_bucket_put", "await_insert"}
  \/ \E n \in {"SELECT", "INSERT", "bucket.get", "bucket.put"} : Called(q, n)

\* C7: on every avatar route the handler runs only with an Identity whose sub
\* is non-empty attached; when the continuation of verify is reached without
\* one, authorize answers 401 and the handler does not run.
C7_AuthorizationGate ==
  \A r \in Reqs :
    LET q == rq[r] IN
    /\ HandlerTouched(q) => q.jwtSet /\ Truthy(q.jwt.sub)
    /\ ( /\ q.nextCalls = 1 /\ q.pc # "authorize"
         /\ (~q.jwtSet \/ ~Truthy(q.jwt.sub)) )
       => /\ q.pc = "done" /\ q.status = 401
          /\ q.error = "Unauthorized - No valid user context"
          /\ ~HandlerTouched(q)

C7_Witness ==
  \E r \in Reqs :
    /\ rq[r].pc = "done" /\ rq[r].status = 401
    /\ rq[r].customAuthToken = TokNoSub
    /\ rq[r].payload.ok /\ rq[r].jwtSet
    /\ rq[r].route = "POST /"
    /\ rq[r].error = "Unauthorized - No valid user context"

C9_PersistenceFailure ==
  \A r \in Reqs :
    LET q == rq[r] IN
    Called(q, "executeQuery.err")
    => /\ q.pc = "done" /\ q.status = 500
       /\ q.nextCalls = 0

\* The position of the first call of `name` in q.calls, or 0.
FirstCall(q, name) ==
  IF Called(q, name)
  THEN CHOOSE i \in DOMAIN q.calls :
         q.calls[i] = name /\ \A j \in 1..(i - 1) : q.calls[j] # name
  ELSE 0

\* C10: on the bearer and session paths, while the upsert is awaited no
\* Identity is attached and the continuation has not been called; once the
\* Identity is attached or the continuation called, the upsert of that
\* subject has returned successfully, its row is in the users table, and
\* every query or bucket access of the handler comes after it.
C10_UpsertBeforeIdentity ==
  \A r \in Reqs :
    LET q == rq[r] IN
    /\ q.pc \in {"await_jwtVerify", "await_authenticate",
                 "await_upsert_bearer", "await_upsert_session"}
         => ~q.jwtSet /\ q.nextCalls = 0 /\ ~HandlerTouched(q)
    /\ ( /\ (q.jwtSet \/ q.nextCalls > 0 \/ HandlerTouched(q))
         /\ ~q.payload.ok )
       => /\ q.jwtSet /\ q.jwt = q.user
          /\ Called(q, "executeQuery.ok")
          /\ users[q.jwt.sub].present
          /\ \A n \in {"SELECT", "INSERT", "bucket.get", "bucket.put"} :
               Called(q, n) => FirstCall(q, "executeQuery.ok") < FirstCall(q, n)

C10_Witness ==
  \E r \in Reqs :
    /\ rq[r].pc = "done" /\ rq[r].status = 200
    /\ rq[r].sessionCookie = "sealA" /\ ~rq[r].authHeader.present
    /\ ~rq[r].payload.ok
    /\ Called(rq[r], "executeQuery.ok") /\ Called(rq[r], "SELECT")
    /\ rq[r].jwt = SessionUser

----------------------------------------------------------------------------
(* Properties of the auth routes *)

Secret == env.WORKOS_COOKIE_PASSWORD

\* POST /logout is past its verification of the auth_token cookie.
PastLogoutVerify(q) ==
  q.route = "POST /logout" /\ q.pc \notin {"idle", "logout", "await_logout_verifyJWT"}

\* A call to the identity provider was made on behalf of q.
ProviderCalled(q) ==
  \E i \in DOMAIN q.calls :
    q.calls[i] \in {"new WorkOS", "loadSealedSession"} \cup LogoutUrlOutcomes

\* Seconds in one unit of the clock.
SecondsPerUnit == 12 * 60 * 60

\* C11: a POST /logout whose auth_token cookie is missing, expired or fails
\* verification for any other reason is answered 401, sets neither cookie and
\* makes no call to the identity provider.
C11_LogoutRequiresValidToken ==
  \A r \in Reqs :
    LET q == rq[r]
        t == q.customAuthToken
        v == verifyJWT(t, Secret, now)
    IN
    PastLogoutVerify(q) =>
      /\ (t.fmt = "absent" \/ v.error \in {"Invalid token", WeakSecretMsg})
           => ~q.payload.ok
      /\ q.payload.error = "Token has expired" => t.exp <= now
      /\ ~q.payload.ok =>
           /\ q.pc = "done" /\ q.status = 401 /\ ~q.success
           /\ ~q.cookies.auth_token.set
           /\ ~q.cookies.wos_session.set
           /\ ~ProviderCalled(q)

C11_Witness ==
  \E r \in Reqs :
    /\ rq[r].route = "POST /logout" /\ rq[r].pc = "done"
    /\ rq[r].status = 401
    /\ rq[r].customAuthToken \in issued
    /\ rq[r].payload.error = "Token has expired"
    /\ rq[r].sessionCookie = "sealA"

\* C12: a POST /logout whose auth_token verifies sets auth_token to the empty
\* value with max-age 0 and wos-session to the empty value with max-age 0,
\* and answers success, whether the session cookie is absent, cannot be
\* loaded, or the logout URL cannot be had.
C12_LogoutClearsBoth ==
  \A r \in Reqs :
    LET q == rq[r]
        t == q.customAuthToken
    IN
    PastLogoutVerify(q) =>
      /\ verifyJWT(t, Secret, now).ok => q.payload.ok
      /\ q.payload.ok =>
           /\ q.cookies.auth_token.set
           /\ q.cookies.auth_token.value = NoToken
           /\ q.cookies.auth_token.maxAge = 0
           /\ q.cookies.wos_session.set
           /\ q.cookies.wos_session.value = ""
           /\ q.cookies.wos_session.maxAge = 0
           /\ q.pc \in {"await_getLogoutUrl", "done"}
           /\ q.pc = "done" => q.status = 200 /\ q.success

C12_Witness ==
  \E r \in Reqs :
    /\ rq[r].route = "POST /logout" /\ rq[r].pc = "done"
    /\ rq[r].payload.ok
    /\ rq[r].sessionCookie = "sealX"
    /\ Called(rq[r], "getLogoutUrl.err")

\* C13: nothing but the clock ends a token's life.  A token the exchange
\* issued verifies under the configured secret for as long as the clock has
\* not reached its exp, whatever logins and logouts happened since; a request
\* or a further logout that presents it is accepted if it is verified before
\* then, and is refused only as expired.
C13_NoRevocation ==
  /\ \A t \in issued : now < t.exp => verifyJWT(t, Secret, now).ok
  /\ \A r \in Reqs :
       LET q == rq[r]
           t == q.customAuthToken
       IN
       (t \in issued /\ q.payload # NoResult) =>
         IF q.payload.ok
         THEN /\ q.pc = "done" => q.status # 401
              /\ q.route = "POST /logout" \/ q.nextCalls = 1
         ELSE q.payload.error = "Token has expired" /\ t.exp <= now

C13_Witness ==
  \E r \in Reqs :
    /\ rq[r].customAuthToken \in issued \cap loggedOut
    /\ rq[r].route = "GET /api/profile"
    /\ rq[r].pc = "done" /\ rq[r].status = 200

\* C14: a POST /exchange that succeeds sets auth_token to a token signed under
\* the configured secret for the user the code authenticated, issued during
\* the request with exp = iat + 24h; the cookie is HttpOnly, SameSite=Lax,
\* path "/", has max-age equal to the token's lifetime, and is Secure exactly
\* when the request URL starts with https.
C14_ExchangeCookie ==
  \A r \in Reqs :
    LET q == rq[r]
        c == q.cookies.auth_token
        tok == c.value
    IN
    (q.route = "POST /exchange" /\ q.pc = "done" /\ q.status = 200) =>
      /\ c.set /\ tok \in issued
      /\ verifyJWT(tok, Secret, tok.iat).ok
      /\ \E a \in CodeOutcomes(q.code) :
           /\ ~a.threw
           /\ tok.sub = a.user.id /\ tok.email = a.user.email
      /\ tok.iat <= now /\ tok.exp = tok.iat + JWT_EXPIRY
      /\ c.httpOnly /\ c.sameSite = "Lax" /\ c.path = "/"
      /\ c.maxAge = (tok.exp - tok.iat) * SecondsPerUnit
      /\ c.secure <=> q.url.scheme = "https"

C14_Witness ==
  \E r \in Reqs :
    /\ rq[r].route = "POST /exchange" /\ rq[r].pc = "done"
    /\ rq[r].status = 200
    /\ rq[r].url.scheme = "http"
    /\ rq[r].cookies.wos_session.set

----------------------------------------------------------------------------
(* Properties of the token codec *)

\* The secret is shorter than the minimum (the empty one included).
TooShort(secret) == secret.len < MIN_SECRET_LEN

\* The caller verified, under the secret it was issued with, a token that
\* createJWT gave it.
VerifiedOwnToken ==
  /\ cd.pc = "verified"
  /\ cd.created.ok
  /\ cd.kind \in {"same", "earlier"}
  /\ cd.vsecret = cd.secret

\* C15 as stated: the identity fields verifyJWT returns before expiry are
\* the claims createJWT was given, for every claim set.
C15_AsStated ==
  (VerifiedOwnToken /\ cd.kind = "same" /\ cd.at < cd.token.exp) =>
    /\ cd.verified.ok
    /\ cd.verified.payload.sub = cd.userData.userId
    /\ cd.verified.payload.email = cd.userData.email
    /\ cd.verified.payload.firstName = cd.userData.firstName
    /\ cd.verified.payload.lastName = cd.userData.lastName

\* What an optional claim comes back as.
Returned(value) == IF value = "" THEN UNDEF ELSE value

\* C15, amended: for every claim set and every secret of at least 32
\* characters, verifyJWT(createJWT(claims, secret), secret) before expiry
\* succeeds and returns the subject and every optional field as issued,
\* except that an optional field issued as the empty string comes back absent.
C15_RoundTrip ==
  (VerifiedOwnToken /\ cd.kind = "same" /\ cd.at < cd.token.exp) =>
    /\ cd.verified.ok
    /\ cd.verified.payload.sub = cd.userData.userId
    /\ cd.verified.payload.email = Returned(cd.userData.email)
    /\ cd.verified.payload.firstName = Returned(cd.userData.firstName)
    /\ cd.verified.payload.lastName = Returned(cd.userData.lastName)

C15_Witness ==
  /\ VerifiedOwnToken /\ cd.kind = "same" /\ cd.verified.ok
  /\ cd.secret = K2
  /\ cd.userData = UserData("u1", "", "Ann", UNDEF)

C17_TamperAndKeyBinding ==
  ( /\ cd.pc = "verified"
    /\ cd.created.ok
    /\ cd.kind = "altered" \/ cd.vsecret # cd.secret )
  => /\ ~cd.verified.ok
     /\ cd.verified.payload = NoPayload
     /\ ~TooShort(cd.vsecret) => cd.verified.error = "Invalid token"

C17_Witness ==
  /\ cd.pc = "verified" /\ cd.created.ok
  /\ cd.kind = "altered" /\ cd.token.alg = "HS512"
  /\ cd.vsecret = cd.secret
  /\ cd.verified.error = "Invalid token"

\* C18: with a secret that is empty or shorter than 32 characters createJWT
\* and verifyJWT both fail with the weak-secret error, whatever the claims or
\* the token, and the signing library is not called.
C18_WeakSecret ==
  /\ (cd.pc \notin {"idle", "createJWT"} /\ TooShort(cd.secret)) =>
       /\ cd.pc # "sign"
       /\ ~cd.created.ok /\ cd.created.error = WeakSecretMsg
       /\ cd.created.token = NoToken
       /\ \A i \in DOMAIN cd.crypto : cd.crypto[i] # "SignJWT.sign"
  /\ (cd.pc \in {"jwtVerify", "verified"} /\ TooShort(cd.vsecret)) =>
       /\ cd.pc # "jwtVerify"
       /\ ~cd.verified.ok /\ cd.verified.error = WeakSecretMsg
       /\ \A i \in DOMAIN cd.crypto : cd.crypto[i] # "jwtVerify"

C18_Witness ==
  /\ cd.pc = "verified"
  /\ cd.kind = "signed"
  /\ cd.secret = KWeak /\ cd.vsecret = KWeak
  /\ cd.verified.error = WeakSecretMsg

----------------------------------------------------------------------------
(* Properties of the error responses *)

\* C19: a request that presents a custom-token cookie to the resolver, to
\* authMiddleware or to POST /logout is answered 401 when the token is
\* expired or invalid, and 500 when the configured secret is too weak for the
\* token to be verified at all.
C19_StatusMapping ==
  \A r \in Reqs :
    LET q == rq[r] IN
    ( /\ q.pc = "done"
      /\ q.route \in {"GET /", "GET /api/profile", "POST /logout"}
      /\ q.customAuthToken.fmt # "absent" )
    => /\ q.payload.error \in {"Invalid token", "Token has expired"}
            => q.status = 401
       /\ q.payload.error = WeakSecretMsg => q.status = 500

\* Why a request that carries at most the custom-token cookie fails.
Reason(q) ==
  IF q.customAuthToken.fmt = "absent" THEN "missing" ELSE q.payload.error

\* C20: two rejected requests to the same route whose reasons differ (no
\* credential, an expired custom token, a custom token that is invalid) get
\* different error messages.
C20_Distinguishable ==
  \A r1, r2 \in Reqs :
    LET q1 == rq[r1]
        q2 == rq[r2]
    IN
    ( /\ q1.pc = "done" /\ q1.status = 401
      /\ q2.pc = "done" /\ q2.status = 401
      /\ q1.route = q2.route
      /\ Reason(q1) # Reason(q2) )
    => q1.error # q2.error

----------------------------------------------------------------------------
(* Properties of the resolver's carriers *)

\* The header names the bearer carrier as the extraction rule has it: the
\* exact prefix 'Bearer ' and a remainder that is not empty.
BearerExtracted(q) ==
  q.authHeader.present /\ q.authHeader.prefix = "Bearer " /\ q.authHeader.rest # ""

\* C21: a header that does not start with exactly 'Bearer ' or has an empty
\* remainder counts as no bearer carrier: with no usable custom token the
\* provider's key set is not consulted and a session cookie, if carried, is
\* unsealed; without one the request is answered as carrying no credential.
C21_SyntacticBearer ==
  \A r \in Reqs :
    LET q == rq[r] IN
    (PastCustom(q) /\ ~q.payload.ok /\ ~BearerExtracted(q)) =>
      /\ ~Called(q, "jwtVerify")
      /\ Truthy(q.sessionCookie) => Called(q, "authenticate")
      /\ (~Truthy(q.sessionCookie) /\ q.pc = "done") =>
           q.error = "Unauthorized - Missing authentication"

\* The session path was taken and authenticate() has returned or thrown.
SessionAnswered(q) ==
  Called(q, "authenticate") /\ q.pc # "await_authenticate"

\* C22 as stated: on the session path a session that does not authenticate,
\* has no user or throws ends in 401 'Invalid session' with no upsert and no
\* Identity; one that authenticates ends with the user upserted and the
\* Identity attached.
C22_AsStated ==
  \A r \in Reqs :
    LET q == rq[r] IN
    SessionAnswered(q) =>
      /\ ~q.payload.ok /\ ~HasBearer(q)
      /\ q.user = NoIdentity =>
           /\ q.pc = "done" /\ q.status = 401
           /\ q.error = "Unauthorized - Invalid session"
           /\ ~Called(q, "executeQuery") /\ ~q.jwtSet /\ q.nextCalls = 0
      /\ q.user # NoIdentity =>
           /\ Called(q, "executeQuery")
           /\ q.pc # "await_upsert_session" =>
                /\ users[q.user.sub].present
                /\ q.jwtSet /\ q.jwt = SessionUser

\* C22, amended: on the session path (no usable custom token, no bearer
\* header) a session that does not authenticate, has no user or throws ends
\* in 401 'Invalid session' with no upsert and no Identity; one that
\* authenticates has its user upserted, and then either the upsert succeeds
\* and the Identity is the session's user (id, email, firstName, lastName)
\* with the continuation run, or the upsert fails and the request ends with
\* an error response, no Identity and no continuation.
C22_SessionPath ==
  \A r \in Reqs :
    LET q == rq[r] IN
    SessionAnswered(q) =>
      /\ ~q.payload.ok /\ ~HasBearer(q)
      /\ q.user = NoIdentity =>
           /\ q.pc = "done" /\ q.status = 401
           /\ q.error = "Unauthorized - Invalid session"
           /\ ~Called(q, "executeQuery") /\ ~q.jwtSet /\ q.nextCalls = 0
      /\ q.user # NoIdentity =>
           /\ q.user = SessionUser
           /\ Called(q, "executeQuery")
           /\ \/ q.pc = "await_upsert_session" /\ ~q.jwtSet
              \/ /\ Called(q, "executeQuery.ok")
                 /\ users[q.user.sub] =
                      Row(q.user.email, q.user.firstName, q.user.lastName)
                 /\ q.jwtSet /\ q.jwt = SessionUser
                 /\ q.nextCalls = 1
              \/ /\ Called(q, "executeQuery.err")
                 /\ q.pc = "done" /\ q.status >= 400
                 /\ ~q.jwtSet /\ q.nextCalls = 0

C22_Witness ==
  \E r \in Reqs :
    /\ rq[r].pc = "done" /\ rq[r].status = 200
    /\ Called(rq[r], "authenticate")
    /\ rq[r].customAuthToken = TokOtherKey
    /\ rq[r].authHeader = Header("bearer ", "tokB")
    /\ rq[r].jwt = SessionUser

\* How many times the capability `name` was called on behalf of q.
CallCount(q, name) == Cardinality({i \in DOMAIN q.calls : q.calls[i] = name})

\* C24: within one request verifyJWT, the provider's jwtVerify, the session's
\* authenticate and the user upsert are each called at most once, and a
\* failure of jwtVerify, of authenticate or of the upsert ends the request
\* with an error response: no further capability is called and the
\* continuation does not run.
C24_NoRetries ==
  \A r \in Reqs :
    LET q == rq[r] IN
    /\ \A name \in {"verifyJWT", "jwtVerify", "authenticate", "executeQuery"} :
         CallCount(q, name) <= 1
    /\ (Called(q, "jwtVerify") /\ q.pc # "await_jwtVerify"
          /\ ~Called(q, "executeQuery")) =>
         /\ q.pc = "done" /\ q.status = 401 /\ q.nextCalls = 0
         /\ q.calls[Len(q.calls)] = "jwtVerify"
    /\ (Called(q, "authenticate") /\ q.pc # "await_authenticate"
          /\ ~Called(q, "executeQuery")) =>
         /\ q.pc = "done" /\ q.status = 401 /\ q.nextCalls = 0
         /\ q.calls[Len(q.calls)] = "authenticate"
    /\ Called(q, "executeQuery.err") =>
         /\ q.pc = "done" /\ q.status >= 400 /\ q.nextCalls = 0
         /\ q.calls[Len(q.calls)] = "executeQuery.err"

C24_Witness ==
  \E r \in Reqs :
    /\ rq[r].pc = "done"
    /\ rq[r].calls = << "verifyJWT", "jwtVerify", "executeQuery", "executeQuery.err" >>
    /\ rq[r].sessionCookie = "sealA"

\* C26: the resolver ends in exactly one of two ways.  Either it called the
\* continuation, once, with an Identity attached, and then it answers
\* nothing itself and consults no further carrier; or it answered with an
\* error, attached no Identity and never called the continuation.
ResolverErrors ==
  {"Unauthorized - Invalid token", "Unauthorized - Invalid access token",
   "Unauthorized - Invalid session", "Unauthorized - Missing authentication"}

\* The carriers q has consulted, in the order it consulted them.
IsCarrierCall(name) == name \in {"verifyJWT", "jwtVerify", "authenticate"}
CarrierCalls(q) == SelectSeq(q.calls, IsCarrierCall)

C26_ExactlyOneOutcome ==
  \A r \in Reqs :
    LET q == rq[r] IN
    /\ q.nextCalls \in {0, 1}
    /\ q.nextCalls = 1 <=> q.jwtSet
    /\ q.nextCalls = 1 =>
         /\ q.error \notin ResolverErrors
         /\ q.payload.ok => CarrierCalls(q) = << "verifyJWT" >>
         /\ ~q.payload.ok =>
              CarrierCalls(q) \in {<< "jwtVerify" >>, << "authenticate" >>,
                                   << "verifyJWT", "jwtVerify" >>,
                                   << "verifyJWT", "authenticate" >>}
    /\ (q.pc = "done" /\ q.nextCalls = 0) =>
         /\ q.status = 401 /\ q.error \in ResolverErrors
         /\ ~q.jwtSet /\ q.jwt = NoIdentity /\ ~q.handlerRan
    /\ (PastCustom(q) /\ q.pc \notin {"await_jwtVerify", "await_authenticate",
                                     "await_upsert_bearer", "await_upsert_session"})
         => q.nextCalls = 1 \/ (q.pc = "done" /\ q.nextCalls = 0)

C26_Witness ==
  \E r \in Reqs :
    /\ rq[r].pc = "done" /\ rq[r].status = 200
    /\ rq[r].nextCalls = 1
    /\ rq[r].customAuthToken = Garbage
    /\ rq[r].authHeader = Header("Bearer ", "tokB")
    /\ rq[r].sessionCookie = "sealA"

\* The row the upsert of an Identity writes.
UpsertedRow(id) ==
  Row(escapeSqlString(id.email), escapeSqlString(OrEmpty(id.firstName)),
      escapeSqlString(OrEmpty(id.lastName)))

\* C23: two requests in flight at once with the same valid bearer token,
\* under every interleaving of their verification and upsert steps: each
\* resolves to the token's Identity, each calls the upsert, neither is
\* answered with an error by the resolver, and once an upsert has returned
\* the users table holds, under the token's subject, the row with the
\* token's email and name fields.
C23_ConcurrentBearer ==
  \A r \in Reqs : \A s \in Reqs \ {r} :
    LET q == rq[r]
        o == rq[s]
    IN
    ( /\ q.pc # "idle" /\ o.pc # "idle"
      /\ q.authHeader = o.authHeader
      /\ ProviderClaims(q.authHeader.rest).ok ) =>
      /\ q.error \notin ResolverErrors
      /\ ~Called(q, "executeQuery.err")
      /\ (Called(q, "jwtVerify") /\ q.pc # "await_jwtVerify") =>
           Called(q, "executeQuery") /\ q.user = BearerIdentity(q)
      /\ Called(q, "executeQuery.ok") =>
           /\ q.jwtSet /\ q.jwt = BearerIdentity(q) /\ q.nextCalls = 1
           /\ users[q.jwt.sub] = UpsertedRow(BearerIdentity(q))
      /\ (q.jwtSet /\ o.jwtSet) => q.jwt = o.jwt

C23_Witness ==
  /\ \A r \in Reqs :
       /\ rq[r].authHeader = Header("Bearer ", "tokA")
       /\ rq[r].pc = "authorize"
       /\ Called(rq[r], "executeQuery.ok")
  /\ users["u1"] = Row("a@idp", "Anna", "")

----------------------------------------------------------------------------
(* Properties of the exchange's effects *)

\* C28: a response of POST /exchange carries a token only if the upsert of
\* the token's subject succeeded earlier in the same request, so every token
\* issued so far has a row in users (rows are never removed); and an
\* Identity that verify or authMiddleware resolves from an issued token
\* refers to an existing row, although that path calls no upsert.
C28_IssuedSubjectsHaveRows ==
  /\ \A t \in issued : t.sub \in UserIds /\ users[t.sub].present
  /\ \A r \in Reqs :
       LET q == rq[r] IN
       /\ (q.route = "POST /exchange" /\ q.cookies.auth_token.set) =>
            /\ Called(q, "executeQuery.ok")
            /\ q.cookies.auth_token.value \in issued
            /\ q.cookies.auth_token.value.sub = q.user.sub
            /\ users[q.user.sub].present
       /\ (q.route \in {"GET /", "GET /api/profile"} /\ q.payload.ok
             /\ q.customAuthToken \in issued) =>
            /\ users[q.payload.payload.sub].present
            /\ ~Called(q, "executeQuery")
            /\ q.route = "GET /" => q.jwt.sub = q.customAuthToken.sub

C28_Witness ==
  \E r \in Reqs :
    /\ rq[r].route = "GET /" /\ rq[r].pc = "done" /\ rq[r].status = 200
    /\ rq[r].payload.ok
    /\ rq[r].customAuthToken \in issued
    /\ rq[r].customAuthToken.sub = "u2"
    /\ users["u2"].present /\ ~users["u1"].present

\* C29: POST /exchange sets cookies all or nothing.  A response with status
\* 400 (no code) or 500 (the code exchange, the upsert or the token
\* issuance failed) sets neither auth_token nor wos-session; auth_token is
\* set only in the 200 response, after the upsert has succeeded and the
\* token has been created under a secret of sufficient length; wos-session
\* is set only together with auth_token.
C29_ExchangeCookiesAllOrNothing ==
  \A r \in Reqs :
    LET q == rq[r] IN
    q.route = "POST /exchange" =>
      /\ (q.pc = "done" /\ ~Truthy(q.code)) => q.status = 400
      /\ (q.pc = "done" /\ q.status # 200) =>
           /\ q.status \in {400, 500}
           /\ ~q.cookies.auth_token.set /\ ~q.cookies.wos_session.set
      /\ q.pc # "done" =>
           ~q.cookies.auth_token.set /\ ~q.cookies.wos_session.set
      /\ q.cookies.auth_token.set =>
           /\ q.status = 200 /\ q.success
           /\ Called(q, "executeQuery.ok")
           /\ ~TooShort(Secret)
           /\ \E t \in 0..MaxTime :
                q.cookies.auth_token.value = ExchangeToken(q, Secret, t).token
      /\ q.cookies.wos_session.set => q.cookies.auth_token.set

\* The token issuance failed after the code exchange and the upsert had
\* succeeded, for a code that comes with a sealed session.
C29_Witness ==
  \E r \in Reqs :
    /\ rq[r].route = "POST /exchange" /\ rq[r].pc = "done"
    /\ rq[r].status = 500
    /\ Called(rq[r], "executeQuery.ok")
    /\ Truthy(rq[r].sealedSession)
    /\ ~rq[r].cookies.auth_token.set /\ ~rq[r].cookies.wos_session.set

----------------------------------------------------------------------------
(* Properties of the avatar store *)

\* The position of the first call of `name` in q.calls (0 when there is none).
CallIndex(q, name) ==
  IF Called(q, name)
  THEN CHOOSE i \in DOMAIN q.calls :
         q.calls[i] = name /\ \A j \in 1..(i - 1) : q.calls[j] # name
  ELSE 0

SupportedContentType(q) ==
  q.contentType \in {"application/json", "multipart/form-data"}

\* The photo part POST / reads: only a multipart body has one.
PostedPhoto(q) ==
  IF q.contentType = "multipart/form-data" THEN q.photo ELSE NoFile

\* The input of a POST / is one the handler rejects.
RejectedInput(q) ==
  \/ ~SupportedContentType(q)
  \/ ~SchemaOk(q.body)
  \/ PostedPhoto(q).present /\ PhotoError(PostedPhoto(q)) # ""

\* C30: a POST / whose content type is unsupported, whose fields fail the
\* schema, or whose photo has a disallowed type or is larger than 10MB is
\* answered 400 with no bucket.put and no INSERT issued; bucket.put is
\* issued only for validated fields and an acceptable photo, and before the
\* INSERT.
C30_RejectedInputNoEffect ==
  \A r \in Reqs :
    LET q == rq[r] IN
    (q.route = "POST /" /\ q.handlerRan) =>
      /\ RejectedInput(q) =>
           /\ q.pc = "done" /\ q.status = 400
           /\ ~Called(q, "bucket.put") /\ ~Called(q, "INSERT")
           /\ q.photoKey = NoKey
      /\ Called(q, "bucket.put") =>
           /\ SupportedContentType(q) /\ SchemaOk(q.body)
           /\ PostedPhoto(q).present /\ PhotoError(PostedPhoto(q)) = ""
      /\ (Called(q, "bucket.put") /\ q.pc = "await_bucket_put") => ~Called(q, "INSERT")
      /\ (Called(q, "bucket.put") /\ Called(q, "INSERT")) =>
           CallIndex(q, "bucket.put") < CallIndex(q, "INSERT")
      /\ (Called(q, "INSERT") /\ PostedPhoto(q).present) => Called(q, "bucket.put")

\* A photo that is too large, sent with valid fields, was turned down while
\* an earlier avatar and its photo are in place.
C30_Witness ==
  \E r \in Reqs :
    /\ rq[r].route = "POST /" /\ rq[r].pc = "done" /\ rq[r].status = 400
    /\ rq[r].photo = File("image/gif", MAX_FILE_SIZE + 1, "a.png")
    /\ SchemaOk(rq[r].body)
    /\ Cardinality(avatars) = 1 /\ Cardinality(bucket) = 1

\* The caller of q's DELETE /:id names a row that is there and belongs to
\* somebody else.
ForeignRow(q) ==
  /\ q.route = "DELETE /:id" /\ IdValid(q.idParam)
  /\ \E a \in avatars : a.id = NumberOf[q.idParam] /\ a.user_id # q.jwt.sub

\* The rows of the table that belong to the user.
RowsOf(userId) == {a \in avatars : a.user_id = userId}

\* The body of a successful listing is exactly the caller's rows.
ListsOwnRows(q) ==
  (q.route = "GET /" /\ q.pc = "done" /\ q.status = 200) =>
    /\ {q.result[i] : i \in DOMAIN q.result} = RowsOf(q.jwt.sub)
    /\ Len(q.result) = Cardinality(RowsOf(q.jwt.sub))

\* C25 as stated: a listing returns exactly the caller's rows, and a DELETE
\* of another user's row is answered 404 with nothing deleted.
C25_AsStated ==
  \A r \in Reqs :
    LET q == rq[r] IN
    /\ ListsOwnRows(q)
    /\ (ForeignRow(q) /\ q.handlerRan) =>
         /\ ~Called(q, "bucket.delete") /\ ~Called(q, "DELETE")
         /\ q.pc = "done" => q.status = 404

\* C25: a listing that succeeds returns exactly the rows whose user_id is
\* the caller's id; a DELETE /:id of a row owned by another user issues
\* neither a bucket.delete nor a DELETE, so that table and bucket stay as
\* they are, and it is answered 404 when the lookup of the row returns and
\* 500 when the lookup fails.
C25_AvatarIsolation ==
  \A r \in Reqs :
    LET q == rq[r] IN
    /\ ListsOwnRows(q)
    /\ (ForeignRow(q) /\ q.handlerRan) =>
         /\ ~Called(q, "bucket.delete") /\ ~Called(q, "DELETE")
         /\ q.avatar = NoAvatar
         /\ q.pc = "done" =>
              IF Called(q, "SELECT.err") THEN q.status = 500 ELSE q.status = 404

\* u2 asked for the deletion of u1's avatar, which has a photo, and was
\* answered 404; row and object are still there.
C25_Witness ==
  \E r \in Reqs :
    /\ rq[r].route = "DELETE /:id" /\ rq[r].pc = "done" /\ rq[r].status = 404
    /\ rq[r].jwt.sub = "u2"
    /\ \E a \in avatars :
         /\ a.id = NumberOf[rq[r].idParam] /\ a.user_id = "u1"
         /\ a.photo_url # NullUrl /\ KeyOfUrl(a.photo_url) \in bucket

\* C27: every key POST / writes to the bucket has the uploader's id as its
\* owner segment; every photo_url in the avatars table is the prefix
\* followed by a key whose owner segment is the row's user_id; and a
\* deletion issues bucket.delete only for a key whose owner segment is the
\* caller's id.
C27_PhotoNamespace ==
  /\ \A a \in avatars :
       a.photo_url # NullUrl =>
         /\ HasPhotoPrefix(a.photo_url)
         /\ KeyUserId(KeyOfUrl(a.photo_url)) = a.user_id
  /\ \A k \in bucket : KeyUserId(k) \in UserIds
  /\ \A r \in Reqs :
       LET q == rq[r] IN
       /\ Called(q, "bucket.put") =>
            /\ Len(q.photoKey) = 2
            /\ KeyUserId(q.photoKey) = q.jwt.sub
       /\ Called(q, "bucket.delete") =>
            /\ q.avatar.user_id = q.jwt.sub
            /\ KeyUserId(KeyOfUrl(q.avatar.photo_url)) = q.jwt.sub

\* u2 deleted an avatar of its own together with its photo while u1's
\* avatar and photo are in place.
C27_Witness ==
  \E r \in Reqs :
    /\ rq[r].route = "DELETE /:id" /\ rq[r].pc = "done" /\ rq[r].status = 200
    /\ rq[r].jwt.sub = "u2"
    /\ Called(rq[r], "bucket.delete")
    /\ \E a \in avatars :
         /\ a.user_id = "u1" /\ a.photo_url # NullUrl
         /\ KeyOfUrl(a.photo_url) \in bucket
    /\ \A k \in bucket : KeyUserId(k) = "u1"

====
